---- MODULE Spec2Model ----
(***************************************************************************)
(* HealthArcBatcher (src/src/types/foundry.d.ts, lines 637-826): the       *)
(* priority-ordered, debounced, frame-budgeted update scheduler, together  *)
(* with the host's timer and animation-frame queues it runs on.            *)
(*                                                                         *)
(* The host is single-threaded.  A handler (the debounce-timer callback or *)
(* an animation-frame continuation) runs to completion; the only code that *)
(* can run in the middle of it is the render callback it calls, which may  *)
(* re-enter queueUpdate or clear.  The variable run holds the position of  *)
(* the handler that is executing; while it is set no other handler and no  *)
(* outside caller can act.                                                 *)
(*                                                                         *)
(* lastProcessTime is written by the timer callback and read nowhere; it   *)
(* is left out.                                                            *)
(***************************************************************************)
EXTENDS Integers, Sequences, FiniteSets, TLC

\* ---------------------------------------------------------------- bounds
\* Date.now() takes the values 0..MaxTime.
MaxTime == 1
\* queueUpdate is called at most MaxCalls times, from outside or from inside
\* the render callback.
MaxCalls == 3
\* A burst queues at most MaxCrowd entities in one go.
MaxCrowd == 31
\* batchSize is computed for queues of 0..MaxTokens entries.
MaxTokens == 400
MaxCacheOps == 4
MaxHP == 12
MaxClock == 2
\* The tokens of the largest scene drawn.
MaxScene == 52
\* The calls made of a throttled or debounced function, and the time they
\* are made in.
MaxHookCalls == 3
MaxHookTime == 5

\* ------------------------------------------------------ program constants
BATCH_BASE_SIZE == 12
CRITICAL == 0
HIGH == 1
NORMAL == 2
LOW == 3

\* --------------------------------------------------------------- entities
\* A FoundryToken object: obj tells two objects with the same id apart.
\* The ids of the entities of a burst, in the order they are queued.
CrowdIds ==
  << "c01", "c02", "c03", "c04", "c05", "c06", "c07", "c08", "c09", "c10",
     "c11", "c12", "c13", "c14", "c15", "c16", "c17", "c18", "c19", "c20",
     "c21", "c22", "c23", "c24", "c25", "c26", "c27", "c28", "c29", "c30",
     "c31", "c32", "c33", "c34", "c35", "c36" >>
Ids == {"a", "b"} \cup {CrowdIds[k] : k \in 1..Len(CrowdIds)}
Tokens ==
  { [id |-> "a", obj |-> 1], [id |-> "a", obj |-> 2], [id |-> "b", obj |-> 1] }
\* A token object without id, and the null / undefined argument.
NoIdToken == [id |-> "", obj |-> 1]
NullToken == [id |-> "", obj |-> 0]
\* What _calculateTokenPriority reads of a token at the time of the call.
TokenState(controlled, combatant, actorCombatant, hover) ==
  [ controlled |-> controlled, combatant |-> combatant,
    actorCombatant |-> actorCombatant, hover |-> hover ]
Plain == TokenState(FALSE, FALSE, FALSE, FALSE)
Hovered == TokenState(FALSE, FALSE, FALSE, TRUE)
Selected == TokenState(TRUE, FALSE, FALSE, TRUE)
InCombat == TokenState(FALSE, FALSE, TRUE, FALSE)
\* The k-th entity of a burst and the state it is in: the states go through
\* every combination of the four fields.
CrowdToken(k) == [id |-> CrowdIds[k], obj |-> 1]
CrowdState(k) ==
  TokenState(k % 2 = 1, (k \div 2) % 2 = 1, (k \div 4) % 2 = 1,
             (k \div 8) % 2 = 1)
\* The calls of queueUpdate the model makes: a token and the state it is in.
Requests ==
  { [token |-> [id |-> "a", obj |-> 1], st |-> Plain],
    [token |-> [id |-> "a", obj |-> 2], st |-> Selected],
    [token |-> [id |-> "b", obj |-> 1], st |-> Hovered],
    [token |-> [id |-> "b", obj |-> 1], st |-> InCombat],
    [token |-> NoIdToken, st |-> Plain],
    [token |-> NullToken, st |-> Plain] }
\* The render callbacks initialise can install; "null" is the initial value.
Callbacks == {"f"}
\* What one invocation of the render callback does besides drawing.
Behaviours == {"return", "throw", "queueUpdate", "clear"}
\* The same for the callback that serves a burst.
BurstBehaviours == {"return", "throw", "clear"}
\* The callbacks of a scheduler that is rebound, and what they do.
RebindCallbacks == {"f", "g"}
RebindBehaviours == {"return", "initialise"}
\* The sizes of the bursts.
BurstSizes == {n \in 1..MaxCrowd : (MaxCrowd - n) % 6 = 0}

VARIABLES
  updateQueue,      \* Map<string, QueuedToken>, in insertion order
  updateFunction,   \* the render callback, or "null"
  isProcessing,
  processingTimer,  \* id of the last timer set, 0 before the first
  timers,           \* host: ids of the timers set and neither fired nor cancelled
  timerSeq,         \* host: the last timer id handed out
  frames,           \* host: the animation-frame callbacks requested, in order
  run,              \* <<>>, or <<r>>: the handler executing and its position
  now,              \* Date.now()
  calls,            \* history: the number of queueUpdate calls made
  owed,             \* history: per id, how its last unserved request was made
  lastReq,          \* history: the last request made for each id in the queue
  asked,            \* history: the state the token of that request was in
  wanted,           \* history: the argument of the last initialise()
  lastOp,           \* history: the last operation that acted
  arg,              \* the input of a function evaluated on its own
  res,              \* <<>>, or <<v>>: its result v
  uncertaintyMap,   \* HealthArcCache: Map<string, HPUncertainty>, as entries
  settings,         \* the perception settings game.settings holds
  cacheOps,         \* history: the number of calls made to the cache
  cacheOp,          \* history: the last call made to the cache
  lastCall,         \* history: <<>>, or <<c>>: the last getHPUncertainty call
  seen,             \* history: per pair, its last call since it was cleared
  shown,            \* history: what the calls returned since the start
  tokenGeometryMap, \* TokenGeometryManager: Map<string, TokenGeometry>
  clock,            \* what Date.now() returns
  geometryCall,     \* history: <<>>, or <<c>>: the last getTokenGeometry call
  inThrottle,       \* throttle: the closure's inThrottle
  lastArgs,         \* throttle: the closure's lastArgs, <<>> for null
  timeoutId,        \* throttle: the closure's timeoutId, 0 for null
  timeout,          \* debounce: the closure's timeout, 0 for null
  hookTimers,       \* the timers window.setTimeout holds for the two
  hookSeq,          \* the last timer id window.setTimeout returned
  hookNow,          \* the time, in steps of which limit and wait are made
  hookCalls,        \* history: the calls of the wrapped function
  invoked,          \* history: the calls of func
  ready,            \* whether PIXI and canvas.tokens are there
  retryCount,       \* initialiseRendererWithRetry: the closure's retryCount
  rendererFunctions,\* renderer-functions.ts: "null" or "set"
  attempts,         \* history: the calls of initialiseRenderer
  installs,         \* history: the calls of setRendererFunctions
  drawn             \* history: the initial draws that ran

vars ==
  << updateQueue, updateFunction, isProcessing, processingTimer, timers,
     timerSeq, frames, run, now, calls, owed, lastReq, asked, wanted, lastOp,
     arg, res, uncertaintyMap, settings, cacheOps, cacheOp, lastCall, seen,
     shown, tokenGeometryMap, clock, geometryCall, inThrottle, lastArgs,
     timeoutId, timeout, hookTimers, hookSeq, hookNow, hookCalls, invoked,
     ready, retryCount, rendererFunctions, attempts, installs, drawn >>

\* The uncertainty cache, its settings and its history.
cacheVars ==
  << uncertaintyMap, settings, cacheOps, cacheOp, lastCall, seen, shown >>
\* The geometry cache, the clock and its history.
geometryVars == << tokenGeometryMap, clock, geometryCall >>
\* The throttle and debounce closures, their timers and their history.
hookVars ==
  << inThrottle, lastArgs, timeoutId, timeout, hookTimers, hookSeq, hookNow,
     hookCalls, invoked >>
\* The start of the renderer and its history.
retryVars ==
  << ready, retryCount, rendererFunctions, attempts, installs, drawn >>
\* What the scheduler's operations leave alone.
others == << arg, res, cacheVars, geometryVars, hookVars, retryVars >>
\* The scheduler, the host and their history.
batcherVars ==
  << updateQueue, updateFunction, isProcessing, processingTimer, timers,
     timerSeq, frames, run, now, calls, owed, lastReq, asked, wanted, lastOp >>

Min(x, y) == IF x < y THEN x ELSE y
\* Math.max that looks at its first argument alone.
MaxPicksFirst(x, y) == x

Max(x, y) == IF x > y THEN x ELSE y

\* ------------------------------------------------------------- priority
\* The tests in another order: hover before controlled and combatant.
_calculateTokenPriorityHoverFirst(token, st) ==
  IF token = NullToken THEN LOW
  ELSE IF st.hover THEN HIGH
  ELSE IF st.controlled THEN CRITICAL
  ELSE IF st.combatant \/ st.actorCombatant THEN CRITICAL
  ELSE NORMAL

_calculateTokenPriority(token, st) ==
  IF token = NullToken THEN LOW
  ELSE IF st.controlled THEN CRITICAL
  ELSE IF st.combatant \/ st.actorCombatant THEN CRITICAL
  ELSE IF st.hover THEN HIGH
  ELSE NORMAL

\* ------------------------------------------------------------ the queue
\* A queue that is a list: every call adds an entry.
MapSetAppends(q, rec) == Append(q, rec)

\* Map.prototype.set: an existing key keeps its place in the iteration
\* order, a new key goes last.
MapSet(q, rec) ==
  IF \E k \in 1..Len(q) : q[k].id = rec.id
  THEN [k \in 1..Len(q) |-> IF q[k].id = rec.id THEN rec ELSE q[k]]
  ELSE Append(q, rec)

\* compare with the timestamps the other way round: oldest first.
compareOldestFirst(a, b) ==
  IF a.priority # b.priority
  THEN a.priority - b.priority
  ELSE a.timestamp - b.timestamp

\* The comparator handed to Array.prototype.sort.
compare(a, b) ==
  IF a.priority # b.priority
  THEN a.priority - b.priority
  ELSE b.timestamp - a.timestamp

\* Array.prototype.sort is stable: x goes after every element that does not
\* compare greater than it.
RECURSIVE InsertSorted(_, _)
InsertSorted(s, x) ==
  IF s = <<>> THEN <<x>>
  ELSE IF compare(Head(s), x) <= 0
       THEN <<Head(s)>> \o InsertSorted(Tail(s), x)
       ELSE <<x>> \o s

RECURSIVE SortQueue(_)
SortQueue(q) ==
  IF q = <<>> THEN <<>>
  ELSE InsertSorted(SortQueue(SubSeq(q, 1, Len(q) - 1)), q[Len(q)])

\* .map(queuedToken => queuedToken.token)
RECURSIVE mapToken(_)
mapToken(recs) ==
  IF recs = <<>> THEN <<>>
  ELSE <<Head(recs).token>> \o mapToken(Tail(recs))

\* batchSize without the lower limit of 1.
batchSizeNoMinimum(totalTokens) ==
  Min(BATCH_BASE_SIZE, (BATCH_BASE_SIZE * 30) \div Max(10, totalTokens))

\* BATCH_BASE_SIZE * (30 / Math.max(10, totalTokens)) is computed in floating
\* point and floored; for 10 <= totalTokens <= 100000 the result is that of
\* the integer division.
batchSize(totalTokens) ==
  Max(1, Min(BATCH_BASE_SIZE,
             (BATCH_BASE_SIZE * 30) \div Max(10, totalTokens)))

\* ------------------------------------------- the scheduler as a record
\* The fields queueUpdate, processBatch and clear read and write.
Batcher ==
  [ updateQueue |-> updateQueue, isProcessing |-> isProcessing,
    processingTimer |-> processingTimer, timers |-> timers,
    timerSeq |-> timerSeq ]

Becomes(b) ==
  /\ updateQueue' = b.updateQueue
  /\ isProcessing' = b.isProcessing
  /\ processingTimer' = b.processingTimer
  /\ timers' = b.timers
  /\ timerSeq' = b.timerSeq

\* window.clearTimeout(id): a fired, cancelled or unknown id is ignored.
clearTimeout(ts, id) == ts \ {id}

\* processBatch up to the return of window.setTimeout; the callback it
\* registers is TimerFires.
processBatch(b) ==
  LET pending == IF b.processingTimer # 0
                 THEN clearTimeout(b.timers, b.processingTimer)
                 ELSE b.timers
      id == b.timerSeq + 1
  IN  [b EXCEPT !.timers = pending \cup {id},
                !.processingTimer = id,
                !.timerSeq = id]

\* queueUpdate without the test of token?.id.
queueUpdateAnyToken(b, token, st, time) ==
  LET rec == [id |-> token.id, token |-> token,
              priority |-> _calculateTokenPriority(token, st),
              timestamp |-> time]
      q == [b EXCEPT !.updateQueue = MapSet(b.updateQueue, rec)]
  IN  IF ~b.isProcessing
      THEN processBatch([q EXCEPT !.isProcessing = TRUE])
      ELSE q

\* queueUpdate without the test of isProcessing: every call restarts the
\* debounce timer.
queueUpdateRestartsTimer(b, token, st, time) ==
  IF token.id = "" THEN b
  ELSE LET rec == [id |-> token.id, token |-> token,
                   priority |-> _calculateTokenPriority(token, st),
                   timestamp |-> time]
           q == [b EXCEPT !.updateQueue = MapSet(b.updateQueue, rec)]
       IN  processBatch([q EXCEPT !.isProcessing = TRUE])

queueUpdate(b, token, st, time) ==
  IF token.id = "" THEN b
  ELSE LET rec == [id |-> token.id, token |-> token,
                   priority |-> _calculateTokenPriority(token, st),
                   timestamp |-> time]
           q == [b EXCEPT !.updateQueue = MapSet(b.updateQueue, rec)]
       IN  IF ~b.isProcessing
           THEN processBatch([q EXCEPT !.isProcessing = TRUE])
           ELSE q

\* initialise that keeps a callback already installed.
initialiseOnce(current, fn) == IF current = "null" THEN fn ELSE current

\* initialise(updateFunction): the new value of the field.
initialise(current, fn) == fn

\* clear() that leaves the flag as it is.
clearKeepsFlag(b) ==
  LET pending == IF b.processingTimer # 0
                 THEN clearTimeout(b.timers, b.processingTimer)
                 ELSE b.timers
  IN  [b EXCEPT !.timers = pending, !.updateQueue = <<>>]

\* clear() that leaves the queue as it is.
clearKeepsQueue(b) ==
  LET pending == IF b.processingTimer # 0
                 THEN clearTimeout(b.timers, b.processingTimer)
                 ELSE b.timers
  IN  [b EXCEPT !.timers = pending, !.isProcessing = FALSE]

clear(b) ==
  LET pending == IF b.processingTimer # 0
                 THEN clearTimeout(b.timers, b.processingTimer)
                 ELSE b.timers
  IN  [b EXCEPT !.timers = pending,
                !.updateQueue = <<>>,
                !.isProcessing = FALSE]

\* The end of the timer callback when it started no batch, or when what it
\* ran threw (lines 806-812).
cleanup(b) == [b EXCEPT !.updateQueue = <<>>, !.isProcessing = FALSE]

\* The end of a batch that forgets the flag.
finishedKeepsFlag(b) == [b EXCEPT !.updateQueue = <<>>]

\* processNextBatch when the last entry is behind it (lines 788-796).
finished(b) == [b EXCEPT !.updateQueue = <<>>, !.isProcessing = FALSE]

\* The model makes no more than MaxCalls calls of queueUpdate.
MayQueue == calls < MaxCalls

\* ------------------------------------------------ batches in progress
\* What the closure processNextBatch captures in the timer callback:
\* tokensToProcess, batchSize, frameStartTime (as exceeded: whether more than
\* MAX_TIME_PER_FRAME_MS have passed since it) and processedCount; and, as
\* history, the timer that started the batch (batch), the sorted QueuedToken
\* records tokensToProcess was mapped from (sorted), the tokens passed to the
\* callback so far (called), the callback that was called last (by) and how
\* many had been passed when clear() first ran after the batch started
\* (clearedAt, -1 if it did not).
ClosureFields ==
  { "batch", "tokensToProcess", "sorted", "batchSize", "exceeded",
    "processedCount", "called", "by", "clearedAt" }

\* A continuation that starts again at the entry just processed.
ContinuationAtEntry(r, startIndex) ==
  [f \in ClosureFields |-> r[f]] @@ [startIndex |-> startIndex - 1]

\* requestAnimationFrame(() => processNextBatch(startIndex))
Continuation(r, startIndex) ==
  [f \in ClosureFields |-> r[f]] @@ [startIndex |-> startIndex]

\* processNextBatch that takes everything that is left as one chunk.
processNextBatchToEnd(c, inTimer) ==
  [f \in ClosureFields |-> c[f]] @@
  [ startIndex |-> c.startIndex,
    endIndex |-> Len(c.tokensToProcess),
    i |-> c.startIndex,
    inTimer |-> inTimer ]

\* The first lines of processNextBatch(startIndex): the handler stands in
\* front of the loop's entry i.
processNextBatch(c, inTimer) ==
  [f \in ClosureFields |-> c[f]] @@
  [ startIndex |-> c.startIndex,
    endIndex |-> Min(c.startIndex + c.batchSize, Len(c.tokensToProcess)),
    i |-> c.startIndex,
    inTimer |-> inTimer ]

\* Entry i of the queue as it is at the time of the call, sorted again.
entryAtLive(r, q) ==
  IF r.i + 1 <= Len(q) THEN SortQueue(q)[r.i + 1].token
  ELSE r.tokensToProcess[r.i + 1]

\* tokensToProcess[i]; q is the queue at the time of the call.
entryAt(r, q) == r.tokensToProcess[r.i + 1]

Running == run # <<>>
Chains ==
  {frames[k] : k \in 1..Len(frames)} \cup {run[k] : k \in 1..Len(run)}
MarkCleared(s) ==
  [k \in 1..Len(s) |->
     IF s[k].clearedAt < 0 THEN [s[k] EXCEPT !.clearedAt = Len(s[k].called)]
     ELSE s[k]]
QueueIds(q) == {q[k].id : k \in 1..Len(q)}
QueueEntries(q) == {q[k] : k \in 1..Len(q)}

\* ---------------------------------------------------------------- history
\* How a request is made: before initialise ("uninit"), while a batch that a
\* clear() interrupted is still pending ("afterclear"), while a batch is in
\* flight ("inflight"), with the flag down ("fresh"), with the debounce
\* timer pending ("burst"), or with the flag up and nothing pending
\* ("stuck").
TagFor(b) ==
  IF updateFunction = "null" THEN "uninit"
  ELSE IF \E c \in Chains : c.clearedAt >= 0 THEN "afterclear"
  ELSE IF Chains # {} THEN "inflight"
  ELSE IF ~b.isProcessing THEN "fresh"
  ELSE IF b.timers # {} THEN "burst"
  ELSE "stuck"
Tag == TagFor(Batcher)

\* A request is owed from the call of queueUpdate until the callback is
\* called on a token of that id (Served), clear() discards it, or a throw
\* drops it with its batch (Aborted).
Requested(o, token, tag) ==
  IF token.id = "" THEN o ELSE [o EXCEPT ![token.id] = tag]
Served(o, token) == [o EXCEPT ![token.id] = "none"]
Aborted(o, ids) ==
  [d \in Ids |-> IF d \in ids /\ o[d] # "none" THEN "aborted" ELSE o[d]]
NothingOwed == [d \in Ids |-> "none"]

\* The operation op acts: a clear() right after a clear() is "clearAgain",
\* a queueUpdate that replaces an entry is "requeue", and a queueUpdate
\* right after a batch has finished is "restart".
Then(op) ==
  CASE op = "clear" /\ lastOp \in {"clear", "clearAgain"} -> "clearAgain"
    [] op = "queueUpdate" /\ lastOp = "finish" -> "restart"
    [] OTHER -> op

\* The arguments of the last queueUpdate for each id, forgotten when the
\* queue is emptied.
Noted(l, token, st, time) ==
  IF token.id = "" THEN l
  ELSE {x \in l : x.id # token.id} \cup
       { [id |-> token.id, token |-> token,
          priority |-> _calculateTokenPriority(token, st),
          timestamp |-> time] }

\* The state the token was in at the last queueUpdate for each id, forgotten
\* with lastReq.
AskedOf(l, token, st) ==
  IF token.id = "" THEN l
  ELSE {x \in l : x.id # token.id} \cup {[id |-> token.id, st |-> st]}

\* ------------------------------------------------- the uncertainty cache
\* HealthArcCache (src/src/core/arc-cache.ts).  A string is the sequence
\* of its characters.  A ratio (hpArcPercent, percent) is held in units of
\* 1/ONE, an uncertainty modifier in hundredths and a random seed in
\* thousandths, which makes every product below an integer: the settings
\* are at their registered defaults, whole numbers, and passive perception
\* is a whole score.

ONE == 100000
SLIVER == ONE \div 100
SEED_RANGE == 1000
HALF == 65536
FALLBACK_MODIFIER == 20

\* The registered defaults: maxUncertainty and perceptionScaling are stored
\* as percentages (DEFAULT * 100) and read back divided by 100.  available
\* says whether game.settings.get answers; it throws when it is FALSE.
DefaultSettings ==
  [ available         |-> TRUE,
    minPerception     |-> 1,
    maxPerception     |-> 30,
    basePerception    |-> 10,
    maxUncertainty    |-> 30,
    perceptionScaling |-> 2 ]

getMinPerception(cfg) == cfg.minPerception
getMaxPerception(cfg) == cfg.maxPerception
getBasePerception(cfg) == cfg.basePerception
\* in hundredths
getMaxUncertainty(cfg) == cfg.maxUncertainty
getPerceptionScaling(cfg) == cfg.perceptionScaling

Digits == << "0", "1", "2", "3", "4", "5", "6", "7", "8", "9" >>

\* Number.prototype.toString of a whole number.
RECURSIVE toString(_)
toString(n) ==
  IF n < 0 THEN << "-" >> \o toString(0 - n)
  ELSE IF n < 10 THEN << Digits[n + 1] >>
  ELSE toString(n \div 10) \o << Digits[(n % 10) + 1] >>

\* String.prototype.charCodeAt for the characters ids and numbers are made
\* of here.
charCodeAt(c) ==
  CASE c = "-" -> 45
    [] c = "a" -> 97
    [] c = "b" -> 98
    [] c = "u" -> 117
    [] OTHER   -> 48 + (CHOOSE d \in 0..9 : Digits[d + 1] = c)

\* One round of the hash: hash = ((hash << 5) - hash) + char; hash & hash.
\* The 32-bit value is held as its two 16-bit halves << high, low >>, the
\* way the two's-complement word stores it, so that 31 * hash + char wraps
\* modulo 2^32 exactly as the shift and the & do.
hashRound(hash, char) ==
  LET low == hash[2] * 31 + char
  IN  << (hash[1] * 31 + (low \div HALF)) % HALF, low % HALF >>

RECURSIVE hashLoop(_, _)
hashLoop(hash, seed) ==
  IF seed = <<>> THEN hash
  ELSE hashLoop(hashRound(hash, charCodeAt(Head(seed))), Tail(seed))

\* hash % 1000 without Math.abs: the remainder keeps the sign of the word.
signedModRange(hash) ==
  LET h == HALF % SEED_RANGE
      unsigned == (hash[1] * h + hash[2]) % SEED_RANGE
      wrap == (h * h) % SEED_RANGE
  IN  IF hash[1] >= HALF \div 2
      THEN 0 - ((wrap + SEED_RANGE - unsigned) % SEED_RANGE)
      ELSE unsigned

\* Math.abs(hash) % 1000 of the signed word: the word is negative when its
\* top bit is set, and its magnitude is then 2^32 minus the unsigned value.
absModRange(hash) ==
  LET h == HALF % SEED_RANGE
      unsigned == (hash[1] * h + hash[2]) % SEED_RANGE
      wrap == (h * h) % SEED_RANGE
  IN  IF hash[1] >= HALF \div 2
      THEN (wrap + SEED_RANGE - unsigned) % SEED_RANGE
      ELSE unsigned

\* In thousandths: (Math.abs(hash) % 1000) / 1000.
_getRandomSeed(tokenId, hpValue) ==
  absModRange(hashLoop(<< 0, 0 >>, tokenId \o hpValue))

\* _calculateUncertaintyModifier without the catch's fallback: settings that
\* do not answer give no uncertainty.
_calculateUncertaintyModifierNoFallback(cfg, passivePerception) ==
  LET clampedPerception ==
        Max(getMinPerception(cfg),
            Min(getMaxPerception(cfg), passivePerception))
  IN  IF ~cfg.available THEN 0
      ELSE Max(0, getMaxUncertainty(cfg)
                    - ((clampedPerception - getBasePerception(cfg))
                         * getPerceptionScaling(cfg)))

\* _calculateUncertaintyModifier with the perception term added instead of
\* subtracted.
_calculateUncertaintyModifierRising(cfg, passivePerception) ==
  LET clampedPerception ==
        Max(getMinPerception(cfg),
            Min(getMaxPerception(cfg), passivePerception))
  IN  IF ~cfg.available THEN FALLBACK_MODIFIER
      ELSE Max(0, getMaxUncertainty(cfg)
                    + ((clampedPerception - getBasePerception(cfg))
                         * getPerceptionScaling(cfg)))

\* In hundredths.  The first getter throws when the settings do not
\* answer, and the catch returns the fallback.
_calculateUncertaintyModifier(cfg, passivePerception) ==
  LET clampedPerception ==
        Max(getMinPerception(cfg),
            Min(getMaxPerception(cfg), passivePerception))
  IN  IF ~cfg.available THEN FALLBACK_MODIFIER
      ELSE Max(0, getMaxUncertainty(cfg)
                    - ((clampedPerception - getBasePerception(cfg))
                         * getPerceptionScaling(cfg)))

\* _calculateUncertaintyPercentage without the sliver of the living.
_calculateUncertaintyPercentageNoSliver(tokenId, currentHP, basePercentage, uncertaintyModifier) ==
  LET randomSeed == _getRandomSeed(tokenId, toString(currentHP))
      randomOffset == (randomSeed * 2 - SEED_RANGE) * uncertaintyModifier
  IN  Max(0, Min(ONE, basePercentage + randomOffset))

_calculateUncertaintyPercentage(tokenId, currentHP, basePercentage, uncertaintyModifier) ==
  LET randomSeed == _getRandomSeed(tokenId, toString(currentHP))
      randomOffset == (randomSeed * 2 - SEED_RANGE) * uncertaintyModifier
      uncertaintyPercentage == basePercentage + randomOffset
      visible == IF currentHP > 0
                 THEN Max(uncertaintyPercentage, SLIVER)
                 ELSE uncertaintyPercentage
  IN  Max(0, Min(ONE, visible))

_createCacheKey(tokenId, userId) == tokenId \o << "-" >> \o userId

\* Map.prototype.get, as the set of the entries under the key (none or one).
mapGet(m, key) == {e \in m : e.key = key}

\* Map.prototype.set.
mapSet(m, key, value) ==
  {e \in m : e.key # key} \cup
  { [key |-> key, actual |-> value.actual, percent |-> value.percent] }

\* getHPUncertainty with the noise seeded by the pair's key instead of the
\* entity's id.
getHPUncertaintySeededByKey(m, cfg, tokenId, userId, currentHP, hpArcPercent, passivePerception) ==
  LET key == _createCacheKey(tokenId, userId)
      previous == mapGet(m, key)
      result ==
        [ actual  |-> currentHP,
          percent |-> _calculateUncertaintyPercentage(
                        key, currentHP, hpArcPercent,
                        _calculateUncertaintyModifier(
                          cfg, passivePerception)) ]
  IN  IF tokenId = <<>> \/ userId = <<>>
      THEN [ map |-> m, computed |-> FALSE,
             result |-> [actual |-> currentHP, percent |-> hpArcPercent] ]
      ELSE IF \E p \in previous : p.actual = currentHP
      THEN [ map |-> m, computed |-> FALSE,
             result |-> LET p == CHOOSE p \in previous : TRUE
                        IN  [actual |-> p.actual, percent |-> p.percent] ]
      ELSE [ map |-> mapSet(m, key, result), computed |-> TRUE,
             result |-> result ]

\* getHPUncertainty on the map m: the map it leaves, the record it returns
\* and whether it computed that record anew.  An empty id is the falsy one.
getHPUncertainty(m, cfg, tokenId, userId, currentHP, hpArcPercent, passivePerception) ==
  LET key == _createCacheKey(tokenId, userId)
      previous == mapGet(m, key)
      uncertaintyModifier ==
        _calculateUncertaintyModifier(cfg, passivePerception)
      result ==
        [ actual  |-> currentHP,
          percent |-> _calculateUncertaintyPercentage(
                        tokenId, currentHP, hpArcPercent,
                        uncertaintyModifier) ]
  IN  IF tokenId = <<>> \/ userId = <<>>
      THEN [ map |-> m, computed |-> FALSE,
             result |-> [actual |-> currentHP, percent |-> hpArcPercent] ]
      ELSE IF \E p \in previous : p.actual = currentHP
      THEN [ map |-> m, computed |-> FALSE,
             result |-> LET p == CHOOSE p \in previous : TRUE
                        IN  [actual |-> p.actual, percent |-> p.percent] ]
      ELSE [ map |-> mapSet(m, key, result), computed |-> TRUE,
             result |-> result ]

\* String.prototype.startsWith.
startsWith(s, prefix) ==
  /\ Len(prefix) <= Len(s)
  /\ SubSeq(s, 1, Len(prefix)) = prefix

\* clearTokenUncertainty that deletes the key equal to the id.
clearTokenUncertaintyWholeKey(m, tokenId) ==
  IF tokenId = <<>> THEN m
  ELSE {e \in m : e.key # tokenId}

clearTokenUncertainty(m, tokenId) ==
  IF tokenId = <<>> THEN m
  ELSE {e \in m : ~startsWith(e.key, tokenId \o << "-" >>)}

clearAll(m) == {}

InitCacheWith(cfg) ==
  /\ uncertaintyMap = {}
  /\ settings = cfg
  /\ cacheOps = 0
  /\ cacheOp = << "new" >>
  /\ lastCall = <<>>
  /\ seen = {}
  /\ shown = {}

InitCache == InitCacheWith(DefaultSettings)

\* --------------------------------------------------- the geometry cache
\* TokenGeometryManager (src/src/types/foundry.d.ts, lines 442-636).  A
\* token is what getTokenGeometry reads of it: whether there is one at
\* all, its id, its rendered size w and h, its texture (<<>> when it has
\* none, << [width, height] >> otherwise) and whether reading the texture
\* throws.  A scale is held in hundredths and an angle in thousandths of a
\* radian; the sizes used below make every quotient exact.

DEFAULT_STROKE_WIDTH == 4
DEFAULT_ARC_OFFSET == 40
ARC_SPAN == 785
TOKEN_GEOMETRY_CACHE_TTL_MS == 10000
CLEANUP_ABOVE == 50
CLEANUP_FROM == 10
FALLBACK_SIZE == 100
SCALE_ONE == 100


\* _cleanupCache with a cutoff that takes the record of age TTL as well.
_cleanupCacheInclusive(m, time) ==
  IF Cardinality(m) < CLEANUP_FROM THEN m
  ELSE {g \in m : ~(g.lastUpdated <= time - TOKEN_GEOMETRY_CACHE_TTL_MS)}

\* _cleanupCache(now).
_cleanupCache(m, time) ==
  IF Cardinality(m) < CLEANUP_FROM THEN m
  ELSE {g \in m : ~(g.lastUpdated < time - TOKEN_GEOMETRY_CACHE_TTL_MS)}

\* _calculateTokenGeometry on the map m at time now: the map it leaves, the
\* record it returns and whether it threw instead; random says whether
\* Math.random() came out below 0.01.
_calculateTokenGeometry(m, token, time, random) ==
  LET tokenTextureWidth ==
        IF token.texture # <<>> THEN token.texture[1].width ELSE token.w
      tokenTextureHeight ==
        IF token.texture # <<>> THEN token.texture[1].height ELSE token.h
      tokenScaleX == (token.w * SCALE_ONE) \div tokenTextureWidth
      tokenScaleY == (token.h * SCALE_ONE) \div tokenTextureHeight
      adjustedArcStroke == (DEFAULT_STROKE_WIDTH * SCALE_ONE) \div tokenScaleX
      arcRadius ==
        Max((tokenTextureWidth \div 2) + (adjustedArcStroke \div 2)
              + DEFAULT_ARC_OFFSET,
            (token.w * 3) \div 4)
      tokenGeometry ==
        [ id |-> token.id,
          width |-> tokenTextureWidth,
          height |-> tokenTextureHeight,
          scaleX |-> tokenScaleX,
          scaleY |-> tokenScaleY,
          arcGeometry |-> [ arcRadius |-> arcRadius,
                            adjustedArcStroke |-> adjustedArcStroke,
                            arcStart |-> 0,
                            arcEnd |-> 0 - ARC_SPAN ],
          lastUpdated |-> time ]
      set == {g \in m : g.id # token.id} \cup {tokenGeometry}
  IN  IF token.faulty
      THEN [ map |-> m, threw |-> TRUE, result |-> <<>> ]
      ELSE [ map |-> IF Cardinality(set) > CLEANUP_ABOVE /\ random
                     THEN _cleanupCache(set, time)
                     ELSE set,
             threw |-> FALSE,
             result |-> << tokenGeometry >> ]

\* _createFallbackGeometry(token).
_createFallbackGeometry(token, time) ==
  LET tokenWidth == IF token.present /\ token.w # 0
                    THEN token.w ELSE FALLBACK_SIZE
      tokenHeight == IF token.present /\ token.h # 0
                     THEN token.h ELSE FALLBACK_SIZE
  IN  [ id |-> IF token.present /\ token.id # "" THEN token.id
               ELSE "unknown",
        width |-> tokenWidth,
        height |-> tokenHeight,
        scaleX |-> SCALE_ONE,
        scaleY |-> SCALE_ONE,
        arcGeometry |-> [ arcRadius |-> tokenWidth + DEFAULT_ARC_OFFSET,
                          adjustedArcStroke |-> DEFAULT_STROKE_WIDTH,
                          arcStart |-> 0,
                          arcEnd |-> 0 - ARC_SPAN ],
        lastUpdated |-> time ]

\* getTokenGeometry without the catch: what is thrown goes to the caller.
getTokenGeometryNoCatch(m, token, time, random) ==
  LET c == _calculateTokenGeometry(m, token, time, random)
  IN  IF ~token.present \/ token.id = "" \/ c.threw
      THEN [ map |-> m, threw |-> TRUE, result |-> <<>> ]
      ELSE c

\* getTokenGeometry(token) on the map m at time now: the map it leaves, the
\* record it returns and whether it threw instead.
getTokenGeometry(m, token, time, random) ==
  LET c == _calculateTokenGeometry(m, token, time, random)
  IN  IF ~token.present \/ token.id = "" \/ c.threw
      THEN [ map |-> m, threw |-> FALSE,
             result |-> << _createFallbackGeometry(token, time) >> ]
      ELSE c

clearCache(m) == {}

InitGeometry ==
  /\ tokenGeometryMap = {}
  /\ clock = 0
  /\ geometryCall = <<>>


\* ------------------------------------------------ throttle and debounce
\* throttle(func, limit) and debounce(func, wait) of
\* src/src/hooks/optimised-hooks.ts (lines 20-92), each as the closure one
\* call of it returns.  func returns without calling the wrapped function
\* again, as the two functions the module throttles do.  A timer is
\* [id, due, callback, args]: the callback is "guarded" (the arrow function
\* of line 51), "executeThrottled" or "later", and args is what the closure
\* later holds (<<>> for the other two).  The arguments of a call are its
\* number.

\* limit and wait, in steps of hookNow.
limit == 2
wait == 2

\* The closures and the host's timers as one record.
Hooks ==
  [ inThrottle |-> inThrottle, lastArgs |-> lastArgs,
    timeoutId |-> timeoutId, timeout |-> timeout, timers |-> hookTimers,
    seq |-> hookSeq, invoked |-> invoked ]

HooksBecome(h) ==
  /\ inThrottle' = h.inThrottle
  /\ lastArgs' = h.lastArgs
  /\ timeoutId' = h.timeoutId
  /\ timeout' = h.timeout
  /\ hookTimers' = h.timers
  /\ hookSeq' = h.seq
  /\ invoked' = h.invoked

\* window.setTimeout(callback, delay) at the time given: the timers it
\* leaves; the id it returns is h.seq + 1.
setTimeout(h, callback, args, delay, time) ==
  [h EXCEPT !.timers = @ \cup { [ id |-> h.seq + 1, due |-> time + delay,
                                  callback |-> callback, args |-> args ] },
            !.seq = @ + 1]

\* window.clearTimeout(id) on the timers of the two.
clearHookTimeout(h, id) == [h EXCEPT !.timers = {t \in @ : t.id # id}]

\* func(...args) at the time given.
func(h, args, time) ==
  [h EXCEPT !.invoked = Append(@, [args |-> args, at |-> time])]

\* executeThrottled (lines 33-39).
executeThrottled(h, time) ==
  LET ran == IF h.lastArgs # <<>> THEN func(h, h.lastArgs[1], time) ELSE h
  IN  [ran EXCEPT !.lastArgs = <<>>, !.inThrottle = FALSE]

\* The function throttle returns, with a trailing timer that is left as it
\* is when a call comes during the throttle period.
throttledKeepsTimer(h, args, time) ==
  LET stored == [h EXCEPT !.lastArgs = << args >>]
  IN  IF ~h.inThrottle
      THEN LET ran == func([stored EXCEPT !.inThrottle = TRUE], args, time)
               set == setTimeout(ran, "guarded", <<>>, limit, time)
           IN  [set EXCEPT !.timeoutId = set.seq]
      ELSE stored

\* The function throttle returns (lines 41-67), called with args.
throttled(h, args, time) ==
  LET stored == [h EXCEPT !.lastArgs = << args >>]
  IN  IF ~h.inThrottle
      THEN LET ran == func([stored EXCEPT !.inThrottle = TRUE], args, time)
               set == setTimeout(ran, "guarded", <<>>, limit, time)
           IN  [set EXCEPT !.timeoutId = set.seq]
      ELSE IF h.timeoutId # 0
      THEN LET set == setTimeout(clearHookTimeout(stored, h.timeoutId),
                                 "executeThrottled", <<>>, limit, time)
           IN  [set EXCEPT !.timeoutId = set.seq]
      ELSE stored

\* The function debounce returns, without the clearTimeout.
debouncedKeepsTimer(h, args, time) ==
  LET set == setTimeout(h, "later", << args >>, wait, time)
  IN  [set EXCEPT !.timeout = set.seq]

\* The function debounce returns (lines 80-91), called with args.
debounced(h, args, time) ==
  LET cleared == IF h.timeout # 0 THEN clearHookTimeout(h, h.timeout) ELSE h
      set == setTimeout(cleared, "later", << args >>, wait, time)
  IN  [set EXCEPT !.timeout = set.seq]

\* The callback of the timer t runs.
hookTimerRuns(h, t, time) ==
  CASE t.callback = "guarded" ->
         IF h.inThrottle THEN executeThrottled(h, time) ELSE h
    [] t.callback = "executeThrottled" -> executeThrottled(h, time)
    [] t.callback = "later" ->
         func([h EXCEPT !.timeout = 0], t.args[1], time)

InitHooks ==
  /\ inThrottle = FALSE
  /\ lastArgs = <<>>
  /\ timeoutId = 0
  /\ timeout = 0
  /\ hookTimers = {}
  /\ hookSeq = 0
  /\ hookNow = 0
  /\ hookCalls = <<>>
  /\ invoked = <<>>


\* ------------------------------------------------ the renderer's start
\* initialiseRendererWithRetry (src/src/module.ts, lines 229-300) and
\* initialiseRenderer (src/src/ui/arc-renderer.ts, lines 402-452).  Its
\* timers are the host's, with the callbacks "retry" and "draw".

RETRY_MAX_ATTEMPTS == 3
RETRY_BASE_DELAY_MS == 200
INITIAL_DRAW_DELAY_MS == 300

\* initialiseRenderer that leaves the uncertainty cache as it is.
initialiseRendererKeepsCache(b, fn, m, isReady) ==
  IF ~isReady
  THEN [ success |-> FALSE, b |-> b, updateFunction |-> fn, map |-> m ]
  ELSE [ success |-> TRUE, b |-> clear(b),
         updateFunction |-> initialise(fn, "_drawHealthArcImpl"),
         map |-> m ]

\* initialiseRenderer() on the scheduler b with the callback fn and the
\* uncertainty map m: whether it succeeded and what it leaves of the three.
initialiseRenderer(b, fn, m, isReady) ==
  IF ~isReady
  THEN [ success |-> FALSE, b |-> b, updateFunction |-> fn, map |-> m ]
  ELSE [ success |-> TRUE, b |-> clear(b),
         updateFunction |-> initialise(fn, "_drawHealthArcImpl"),
         map |-> clearAll(m) ]

\* attemptRetry() up to the return of setTimeout; count is retryCount after
\* the increment.
attemptRetry(h, count, delayMs, time) ==
  setTimeout(h, "retry", <<>>, delayMs * count, time)

\* The setTimeout of the initial draw (lines 240-247 and 276-283).
scheduleDraw(h, time) ==
  setTimeout(h, "draw", <<>>, INITIAL_DRAW_DELAY_MS, time)

InitRenderer ==
  /\ ready = FALSE
  /\ retryCount = 0
  /\ rendererFunctions = "null"
  /\ attempts = <<>>
  /\ installs = 0
  /\ drawn = 0

\* ------------------------------------------------------------------ Init
InitBatcher ==
  /\ updateQueue = <<>>
  /\ updateFunction = "null"
  /\ isProcessing = FALSE
  /\ processingTimer = 0
  /\ timers = {}
  /\ timerSeq = 0
  /\ frames = <<>>
  /\ run = <<>>
  /\ now = 0
  /\ calls = 0
  /\ owed = NothingOwed
  /\ lastReq = {}
  /\ asked = {}
  /\ wanted = "null"
  /\ lastOp = "new"

Init ==
  /\ InitBatcher
  /\ InitGeometry
  /\ InitHooks
  /\ InitRenderer
  /\ InitCache
  /\ arg = <<>>
  /\ res = <<>>

\* --------------------------------------------------- calls from outside
Initialise(fn) ==
  /\ ~Running
  /\ updateFunction' = initialise(updateFunction, fn)
  /\ wanted' = fn
  /\ lastOp' = Then("initialise")
  /\ UNCHANGED << updateQueue, isProcessing, processingTimer, timers,
                  timerSeq, frames, run, now, calls, owed, lastReq, asked >>
  /\ UNCHANGED others

\* queueUpdate(token) called from outside.
Queued(token, st) ==
  /\ ~Running
  /\ Becomes(queueUpdate(Batcher, token, st, now))
  /\ calls' = calls + 1
  /\ owed' = Requested(owed, token, Tag)
  /\ lastReq' = Noted(lastReq, token, st, now)
  /\ asked' = AskedOf(asked, token, st)
  /\ lastOp' = Then(IF token.id = "" THEN "skipped"
                    ELSE IF token.id \in QueueIds(updateQueue) THEN "requeue"
                    ELSE "queueUpdate")
  /\ UNCHANGED << updateFunction, frames, run, now, wanted >>
  /\ UNCHANGED others

QueueUpdate(token, st) == MayQueue /\ Queued(token, st)

Clear ==
  /\ ~Running
  /\ Becomes(clear(Batcher))
  /\ frames' = MarkCleared(frames)
  /\ owed' = NothingOwed
  /\ lastReq' = {}
  /\ asked' = {}
  /\ lastOp' = Then("clear")
  /\ UNCHANGED << updateFunction, run, now, calls, wanted >>
  /\ UNCHANGED others

\* Date.now() moves on.
Tick ==
  /\ now < MaxTime
  /\ now' = now + 1
  /\ UNCHANGED << updateQueue, updateFunction, isProcessing, processingTimer,
                  timers, timerSeq, frames, run, calls, owed, lastReq,
                  asked, wanted, lastOp >>
  /\ UNCHANGED others

\* ------------------------------------------------------------ handlers
\* The callback given to window.setTimeout, up to the first render callback.
TimerFires(id) ==
  /\ ~Running
  /\ id \in timers
  /\ lastOp' = Then("timer")
  /\ IF updateFunction # "null" /\ Len(updateQueue) > 0
     THEN LET sorted == SortQueue(updateQueue)
              c == [ batch |-> id,
                     tokensToProcess |-> mapToken(sorted),
                     sorted |-> sorted,
                     batchSize |-> batchSize(Len(sorted)),
                     exceeded |-> FALSE,
                     processedCount |-> 0,
                     called |-> <<>>,
                     by |-> "null",
                     clearedAt |-> -1,
                     startIndex |-> 0 ]
          IN  /\ run' = <<processNextBatch(c, TRUE)>>
              /\ Becomes([Batcher EXCEPT !.timers = @ \ {id}])
              /\ UNCHANGED << owed, lastReq, asked >>
     ELSE /\ Becomes(cleanup([Batcher EXCEPT !.timers = @ \ {id}]))
          /\ run' = <<>>
          /\ owed' = owed
          /\ lastReq' = {}
          /\ asked' = {}
  /\ UNCHANGED << updateFunction, frames, now, calls, wanted >>
  /\ UNCHANGED others

\* An animation frame: the oldest requested continuation starts.
FrameFires ==
  /\ ~Running
  /\ frames # <<>>
  /\ run' = <<processNextBatch(Head(frames), FALSE)>>
  /\ frames' = Tail(frames)
  /\ lastOp' = Then("frame")
  /\ UNCHANGED << updateQueue, updateFunction, isProcessing, processingTimer,
                  timers, timerSeq, now, calls, owed, lastReq, asked,
                  wanted >>
  /\ UNCHANGED others

\* The callback the render callback installs when it rebinds the scheduler.
Rebound(fn) == IF fn = "f" THEN "g" ELSE "f"

\* One turn of the loop of processNextBatch: the render callback is called
\* on entry i; it returns, throws, or re-enters queueUpdate(token) or
\* clear() and returns, or rebinds the scheduler with initialise() and
\* returns; slow says that the frame budget is used up when it is done.
Invoke(beh, token, st, slow) ==
  /\ Running
  /\ run[1].i < run[1].endIndex
  /\ updateFunction # "null"
  /\ beh = "queueUpdate" => MayQueue
  /\ LET r == run[1]
         t == entryAt(r, updateQueue)
         b == CASE beh = "queueUpdate" -> queueUpdate(Batcher, token, st, now)
                [] beh = "clear" -> clear(Batcher)
                [] OTHER -> Batcher
         served == Served(owed, t)
         r1 == [r EXCEPT !.called = Append(@, t), !.exceeded = @ \/ slow,
                         !.by = updateFunction]
         r2 == IF beh = "clear"
               THEN MarkCleared(<<[r1 EXCEPT !.processedCount = @ + 1]>>)[1]
               ELSE [r1 EXCEPT !.processedCount = @ + 1]
         fs == IF beh = "clear" THEN MarkCleared(frames) ELSE frames
     IN  IF beh = "throw"
         THEN /\ run' = <<>>
              /\ frames' = fs
              /\ lastOp' = Then("throw")
              /\ owed' = Aborted(served,
                           {r.tokensToProcess[k].id :
                              k \in (r.i + 2)..Len(r.tokensToProcess)}
                           \cup QueueIds(updateQueue))
              /\ IF r.inTimer
                 THEN /\ Becomes(cleanup(b))
                      /\ lastReq' = {}
                      /\ asked' = {}
                 ELSE /\ Becomes(b)
                      /\ lastReq' = lastReq
                      /\ asked' = asked
         ELSE /\ Becomes(b)
              /\ owed' = CASE beh = "queueUpdate" ->
                                Requested(served, token,
                                  IF r.clearedAt >= 0 THEN "afterclear"
                                  ELSE "inflight")
                           [] beh = "clear" -> NothingOwed
                           [] OTHER -> served
              /\ lastReq' = CASE beh = "queueUpdate" ->
                                   Noted(lastReq, token, st, now)
                              [] beh = "clear" -> {}
                              [] OTHER -> lastReq
              /\ asked' = CASE beh = "queueUpdate" ->
                                 AskedOf(asked, token, st)
                            [] beh = "clear" -> {}
                            [] OTHER -> asked
              /\ lastOp' = Then(IF beh = "return" THEN "invoke" ELSE "reenter")
              /\ IF (r.i - r.startIndex) % 5 = 0 /\ r2.exceeded
                 THEN /\ frames' = Append(fs, Continuation(r2, r.i + 1))
                      /\ run' = <<>>
                 ELSE /\ frames' = fs
                      /\ run' = <<[r2 EXCEPT !.i = @ + 1]>>
  /\ calls' = IF beh = "queueUpdate" THEN calls + 1 ELSE calls
  /\ updateFunction' = IF beh = "initialise"
                        THEN initialise(updateFunction, Rebound(updateFunction))
                        ELSE updateFunction
  /\ wanted' = IF beh = "initialise" THEN Rebound(updateFunction) ELSE wanted
  /\ now' = now
  /\ UNCHANGED others

\* processNextBatch after its loop.
Finish ==
  /\ Running
  /\ run[1].i >= run[1].endIndex
  /\ run' = <<>>
  /\ LET r == run[1]
     IN  IF r.endIndex >= Len(r.tokensToProcess)
         THEN /\ Becomes(finished(Batcher))
              /\ frames' = frames
              /\ lastReq' = {}
              /\ asked' = {}
              /\ lastOp' = Then("finish")
         ELSE /\ Becomes(Batcher)
              /\ frames' = Append(frames, Continuation(r, r.endIndex))
              /\ lastReq' = lastReq
              /\ asked' = asked
              /\ lastOp' = Then("next")
  /\ UNCHANGED << updateFunction, now, calls, owed, wanted >>
  /\ UNCHANGED others

Next ==
  \/ \E fn \in Callbacks : Initialise(fn)
  \/ \E req \in Requests : QueueUpdate(req.token, req.st)
  \/ Clear
  \/ Tick
  \/ \E id \in timers : TimerFires(id)
  \/ FrameFires
  \/ \E beh \in Behaviours \ {"queueUpdate"}, slow \in BOOLEAN :
       Invoke(beh, NullToken, Plain, slow)
  \/ \E req \in Requests, slow \in BOOLEAN :
       Invoke("queueUpdate", req.token, req.st, slow)
  \/ Finish

Spec == Init /\ [][Next]_vars

\* ------------------------------------------------------------- a burst
\* forEachToken(safeDrawHealthArc): queueUpdate(token) for entity k to
\* entity n of the burst; h holds the scheduler and the history of the
\* requests, next is what the call for entity k leaves and end what the
\* loop leaves.
RECURSIVE forEachQueueUpdate(_, _, _)
forEachQueueUpdate(h, k, n) ==
  IF k > n THEN h
  ELSE CHOOSE end \in
         { forEachQueueUpdate(next, k + 1, n) :
             next \in
               { [ b |-> queueUpdate(h.b, CrowdToken(k), CrowdState(k), now),
                   owed |-> Requested(h.owed, CrowdToken(k), TagFor(h.b)),
                   lastReq |-> Noted(h.lastReq, CrowdToken(k), CrowdState(k),
                                     now),
                   asked |-> AskedOf(h.asked, CrowdToken(k),
                                     CrowdState(k)) ] } } : TRUE

\* One handler queues the first n entities of the burst, one after the
\* other; no timer fires in between.
QueueCrowd(n) ==
  /\ ~Running
  /\ calls = 0
  /\ LET h == forEachQueueUpdate(
                [ b |-> Batcher, owed |-> owed, lastReq |-> lastReq,
                  asked |-> asked ], 1, n)
     IN  /\ Becomes(h.b)
         /\ owed' = h.owed
         /\ lastReq' = h.lastReq
         /\ asked' = h.asked
  /\ calls' = calls + n
  /\ lastOp' = Then("queueUpdate")
  /\ UNCHANGED << updateFunction, frames, run, now, wanted >>
  /\ UNCHANGED others

\* A burst and the batch that serves it.
NextBurst ==
  \/ \E fn \in Callbacks : Initialise(fn)
  \/ \E n \in BurstSizes : QueueCrowd(n)
  \/ \E id \in timers : TimerFires(id)
  \/ FrameFires
  \/ \E beh \in BurstBehaviours, slow \in BOOLEAN :
       Invoke(beh, NullToken, Plain, slow)
  \/ Finish

SpecBurst == Init /\ [][NextBurst]_vars

\* ------------------------------------------------- rebinding the callback
\* initialise() is called again, between the handlers or by the callback,
\* while requests come in and batches run.
NextRebind ==
  \/ \E fn \in RebindCallbacks : Initialise(fn)
  \/ \E req \in Requests : QueueUpdate(req.token, req.st)
  \/ \E id \in timers : TimerFires(id)
  \/ FrameFires
  \/ \E beh \in RebindBehaviours, slow \in BOOLEAN :
       Invoke(beh, NullToken, Plain, slow)
  \/ Finish

SpecRebind == Init /\ [][NextRebind]_vars

\* --------------------------------------------------- batchSize on its own
InitBatchSize ==
  /\ InitBatcher
  /\ InitGeometry
  /\ InitHooks
  /\ InitRenderer
  /\ InitCache
  /\ arg \in 0..MaxTokens
  /\ res = <<>>

\* The timer callback computes batchSize for a queue of arg entries.
ComputeBatchSize ==
  /\ res = <<>>
  /\ res' = <<batchSize(arg)>>
  /\ UNCHANGED << arg, batcherVars, retryVars, hookVars, cacheVars, geometryVars >>

SpecBatchSize == InitBatchSize /\ [][ComputeBatchSize]_vars

\* ------------------------------------------ the geometry cache's calls
GeometryToken(id, w, h, texture, faulty) ==
  [ present |-> TRUE, id |-> id, w |-> w, h |-> h, texture |-> texture,
    faulty |-> faulty ]

\* getTokenGeometry(null).
NoToken ==
  [ present |-> FALSE, id |-> "", w |-> 0, h |-> 0, texture |-> <<>>,
    faulty |-> FALSE ]

\* The tokens handed to getTokenGeometry: none, two without an id (one of
\* them without a size), entity "a" as it is drawn first, after it was
\* resized and given a texture, and with a texture that cannot be read, and
\* entity "b" with a texture twice its size.
GeometryTokens ==
  { NoToken,
    GeometryToken("", 0, 0, <<>>, FALSE),
    GeometryToken("", 200, 100, <<>>, FALSE),
    GeometryToken("a", 100, 100, <<>>, FALSE),
    GeometryToken("a", 200, 200, << [width |-> 100, height |-> 100] >>,
                  FALSE),
    GeometryToken("a", 100, 100, <<>>, TRUE),
    GeometryToken("b", 100, 200, << [width |-> 200, height |-> 400] >>,
                  FALSE) }

\* The ids the map has a record for.
GeometryIds(m) == {g.id : g \in m}

\* The record the map holds for the token's id: none or one.
GeometryOf(m, token) == {g \in m : token.present /\ g.id = token.id}


\* getTokenGeometry with a stamp that is not the time of the call.
GetTokenGeometryUnstamped(token, random) ==
  LET r == getTokenGeometry(tokenGeometryMap, token, 0, random)
  IN  /\ tokenGeometryMap' = r.map
      /\ geometryCall' = << [ token |-> token, at |-> clock,
                              random |-> random,
                              prior |-> GeometryOf(tokenGeometryMap, token),
                              dropped |-> GeometryIds(tokenGeometryMap)
                                            \ GeometryIds(r.map),
                              threw |-> r.threw, result |-> r.result ] >>
      /\ UNCHANGED << clock, arg, res, batcherVars, retryVars, hookVars, cacheVars >>

GetTokenGeometry(token, random) ==
  LET r == getTokenGeometry(tokenGeometryMap, token, clock, random)
  IN  /\ tokenGeometryMap' = r.map
      /\ geometryCall' = << [ token |-> token, at |-> clock,
                              random |-> random,
                              prior |-> GeometryOf(tokenGeometryMap, token),
                              dropped |-> GeometryIds(tokenGeometryMap)
                                            \ GeometryIds(r.map),
                              threw |-> r.threw, result |-> r.result ] >>
      /\ UNCHANGED << clock, arg, res, batcherVars, retryVars, hookVars, cacheVars >>

ClearCache ==
  /\ tokenGeometryMap' = clearCache(tokenGeometryMap)
  /\ UNCHANGED << clock, geometryCall, arg, res, batcherVars, retryVars, hookVars, cacheVars >>

\* Time passes between two calls.
ClockTick ==
  /\ clock < MaxClock
  /\ clock' = clock + 1
  /\ UNCHANGED << tokenGeometryMap, geometryCall, arg, res, batcherVars, retryVars, hookVars,
                  cacheVars >>

NextGeometry ==
  \/ \E token \in GeometryTokens, random \in BOOLEAN :
       GetTokenGeometry(token, random)
  \/ ClearCache
  \/ ClockTick

SpecGeometry == Init /\ [][NextGeometry]_vars

\* ------------------------------------------------- the geometry sweep
\* The ids of the tokens of a scene, in the order they are drawn.
SceneIds ==
  << "t01", "t02", "t03", "t04", "t05", "t06", "t07", "t08", "t09",
     "t10", "t11", "t12", "t13", "t14", "t15", "t16", "t17", "t18",
     "t19", "t20", "t21", "t22", "t23", "t24", "t25", "t26", "t27",
     "t28", "t29", "t30", "t31", "t32", "t33", "t34", "t35", "t36",
     "t37", "t38", "t39", "t40", "t41", "t42", "t43", "t44", "t45",
     "t46", "t47", "t48", "t49", "t50", "t51", "t52", "t53", "t54",
     "t55", "t56" >>
\* The k-th token of the scene: a token without a texture.
SceneToken(k) == GeometryToken(SceneIds[k], 100, 100, <<>>, FALSE)
\* The sizes of the scenes drawn: one that _cleanupCache would leave alone,
\* the largest that is never swept, and one that can be.
SceneSizes == {n \in 1..MaxScene : n \in {CLEANUP_FROM, CLEANUP_ABOVE, MaxScene}}
\* The call of a pass over n tokens for which Math.random() came out below
\* 0.01: none, the first or the last.
SweepAts(n) == {0, 1, n}

\* A pass over the scene: getTokenGeometry for token k to token n, one
\* after the other at the same time; next is the map the call for token k
\* leaves and end the map the pass leaves.
RECURSIVE forEachGetTokenGeometry(_, _, _, _, _)
forEachGetTokenGeometry(m, k, n, time, sweepAt) ==
  IF k > n THEN m
  ELSE CHOOSE end \in
         { forEachGetTokenGeometry(next, k + 1, n, time, sweepAt) :
             next \in { getTokenGeometry(m, SceneToken(k), time,
                                         sweepAt = k).map } } : TRUE

\* The first n tokens of the scene are drawn in one pass; the last call is
\* the one the history keeps.
DrawScene(n, sweepAt) ==
  LET before == forEachGetTokenGeometry(tokenGeometryMap, 1, n - 1, clock,
                                        sweepAt)
      r == getTokenGeometry(before, SceneToken(n), clock, sweepAt = n)
  IN  /\ tokenGeometryMap' = r.map
      /\ geometryCall' = << [ token |-> SceneToken(n), at |-> clock,
                              random |-> sweepAt = n,
                              prior |-> GeometryOf(before, SceneToken(n)),
                              dropped |-> GeometryIds(before)
                                            \ GeometryIds(r.map),
                              threw |-> r.threw, result |-> r.result ] >>
      /\ UNCHANGED << clock, arg, res, batcherVars, retryVars, hookVars, cacheVars >>

\* The time to live passes between two calls, or a millisecond more: once.
ClockJump(ms) ==
  /\ clock < TOKEN_GEOMETRY_CACHE_TTL_MS
  /\ clock' = clock + ms
  /\ UNCHANGED << tokenGeometryMap, geometryCall, arg, res, batcherVars, retryVars, hookVars,
                  cacheVars >>

\* The tokens drawn on their own.
SweepTokens ==
  { NoToken,
    GeometryToken("a", 100, 100, <<>>, FALSE),
    GeometryToken("a", 100, 100, <<>>, TRUE) }

NextSweep ==
  \/ \E token \in SweepTokens, random \in BOOLEAN :
       GetTokenGeometry(token, random)
  \/ \E n \in SceneSizes : \E sweepAt \in SweepAts(n) : DrawScene(n, sweepAt)
  \/ ClearCache
  \/ \E ms \in {TOKEN_GEOMETRY_CACHE_TTL_MS, TOKEN_GEOMETRY_CACHE_TTL_MS + 1} :
       ClockJump(ms)

SpecSweep == Init /\ [][NextSweep]_vars


\* ---------------------------------------------- the arc radius on its own
\* Rendered widths, and texture widths as a number of half rendered widths:
\* the quotients of _calculateTokenGeometry are exact for them, and the
\* scale goes from 2 down to 1/100.
RadiusWidths == {4, 20, 40, 100, 200, 400}
TextureHalves == {1, 2, 4, 5, 8, 10, 20, 25, 40, 50, 100, 200}
\* The tokens measured: square, without a texture or with a square one.
RadiusTokens ==
  { GeometryToken("a", w, w, <<>>, FALSE) : w \in RadiusWidths }
    \cup { GeometryToken("a", pair[1], pair[1],
                         << [ width |-> (pair[2] * pair[1]) \div 2,
                              height |-> (pair[2] * pair[1]) \div 2 ] >>,
                         FALSE) : pair \in RadiusWidths \X TextureHalves }

InitRadius ==
  /\ InitBatcher
  /\ InitGeometry
  /\ InitHooks
  /\ InitRenderer
  /\ InitCache
  /\ arg \in RadiusTokens
  /\ res = <<>>

\* getTokenGeometry(token) for the token arg.
NextRadius == \E random \in BOOLEAN : GetTokenGeometry(arg, random)

SpecRadius == InitRadius /\ [][NextRadius]_vars


\* -------------------------------------------- the throttled function
\* A call of the throttled function; suppressed says whether it came
\* during a throttle period.
ThrottledCall ==
  /\ Len(hookCalls) < MaxHookCalls
  /\ HooksBecome(throttled(Hooks, Len(hookCalls) + 1, hookNow))
  /\ hookCalls' = Append(hookCalls, [ args |-> Len(hookCalls) + 1,
                                      at |-> hookNow,
                                      suppressed |-> inThrottle ])
  /\ UNCHANGED << hookNow, arg, res, batcherVars, retryVars, cacheVars, geometryVars >>

\* The timers that are due, and of them the one the host runs first.
DueTimers == {t \in hookTimers : t.due <= hookNow}
FirstDue(t) ==
  /\ t \in DueTimers
  /\ \A u \in DueTimers : t.due < u.due \/ (t.due = u.due /\ t.id <= u.id)

\* The host runs the timer t and forgets it.
HookTimerFires(t) ==
  /\ FirstDue(t)
  /\ HooksBecome(hookTimerRuns(clearHookTimeout(Hooks, t.id), t, hookNow))
  /\ UNCHANGED << hookNow, hookCalls, arg, res, batcherVars, retryVars, cacheVars,
                  geometryVars >>

\* Time passes once the timers that are due have run.
HookTick ==
  /\ hookNow < MaxHookTime
  /\ DueTimers = {}
  /\ hookNow' = hookNow + 1
  /\ UNCHANGED << inThrottle, lastArgs, timeoutId, timeout, hookTimers,
                  hookSeq, hookCalls, invoked, arg, res, batcherVars, retryVars,
                  cacheVars, geometryVars >>

NextThrottle ==
  \/ ThrottledCall
  \/ \E t \in hookTimers : HookTimerFires(t)
  \/ HookTick

SpecThrottle == Init /\ [][NextThrottle]_vars

\* -------------------------------------------- the debounced function
DebouncedCall ==
  /\ Len(hookCalls) < MaxHookCalls
  /\ HooksBecome(debounced(Hooks, Len(hookCalls) + 1, hookNow))
  /\ hookCalls' = Append(hookCalls, [ args |-> Len(hookCalls) + 1,
                                      at |-> hookNow,
                                      suppressed |-> FALSE ])
  /\ UNCHANGED << hookNow, arg, res, batcherVars, retryVars, cacheVars, geometryVars >>

NextDebounce ==
  \/ DebouncedCall
  \/ \E t \in hookTimers : HookTimerFires(t)
  \/ HookTick

SpecDebounce == Init /\ [][NextDebounce]_vars


\* ------------------------------------ the uncertainty modifier on its own
\* The settings the registered ranges admit, in whole percents: the ends of
\* each range and its default.
Configs ==
  [ available         : {TRUE},
    minPerception     : {1, 10},
    maxPerception     : {15, 30, 50},
    basePerception    : {5, 10, 15},
    maxUncertainty    : {10, 30, 50},
    perceptionScaling : {1, 2, 5} ]

\* Passive perception scores, below, inside and above the ranges.
Scores == {0, 1, 8, 10, 14, 20, 30, 60}

InitModifier ==
  /\ InitBatcher
  /\ InitGeometry
  /\ InitHooks
  /\ InitRenderer
  /\ \E cfg \in Configs : InitCacheWith(cfg)
  /\ arg \in Scores \X Scores
  /\ res = <<>>

\* The modifier is computed for the two scores of arg under one
\* configuration.
ComputeModifier ==
  /\ res = <<>>
  /\ res' = << _calculateUncertaintyModifier(settings, arg[1]),
               _calculateUncertaintyModifier(settings, arg[2]) >>
  /\ UNCHANGED << arg, batcherVars, retryVars, hookVars, cacheVars, geometryVars >>

SpecModifier == InitModifier /\ [][ComputeModifier]_vars

\* ------------------------------------------- the seed hash on its own
\* Ids whose hash with a hit-point value stays small, wraps to a negative
\* word, and (the fifth with 7 hit points) is the least word, -2^31.
SeedIds ==
  { << "a" >>,
    << "u" >>,
    << "u", "a", "b" >>,
    << "u", "u", "u", "u", "u", "u" >>,
    << "a", "u", "8", "b", "8", "b", "5", "6", "4", "b" >>,
    << "a", "1", "b", "2", "u", "3", "a", "4", "b", "5", "u", "6", "a", "7", "b", "8" >> }

\* Every way to cut a string in two.
Cuts(str) ==
  { << SubSeq(str, 1, k), SubSeq(str, k + 1, Len(str)) >> : k \in 0..Len(str) }

InitSeed ==
  /\ InitBatcher
  /\ InitGeometry
  /\ InitHooks
  /\ InitRenderer
  /\ InitCache
  /\ \E tokenId \in SeedIds, hp \in 0..MaxHP :
       arg \in Cuts(tokenId \o toString(hp))
  /\ res = <<>>

\* _getRandomSeed(tokenId, hpValue) for the two parts of arg.
ComputeSeed ==
  /\ res = <<>>
  /\ res' = << _getRandomSeed(arg[1], arg[2]) >>
  /\ UNCHANGED << arg, batcherVars, retryVars, hookVars, cacheVars, geometryVars >>

SpecSeed == InitSeed /\ [][ComputeSeed]_vars

\* ------------------------------------ the displayed percentage on its own
\* hpArcPercent: 0, 1 of 200, 35 % and full.
BaseRatios == {0, ONE \div 200, 35 * (ONE \div 100), ONE}

\* Modifiers, in hundredths: none, the fallback, the default ceiling and
\* what the default settings give score 1.
Modifiers == {0, FALLBACK_MODIFIER, 30, 48}

InitPercentage ==
  /\ InitBatcher
  /\ InitGeometry
  /\ InitHooks
  /\ InitRenderer
  /\ InitCache
  /\ arg \in SeedIds \X (0..MaxHP) \X BaseRatios \X Modifiers
  /\ res = <<>>

\* _calculateUncertaintyPercentage for the tokenId, currentHP,
\* basePercentage and uncertaintyModifier of arg.
ComputePercentage ==
  /\ res = <<>>
  /\ res' = << _calculateUncertaintyPercentage(arg[1], arg[2], arg[3],
                                               arg[4]) >>
  /\ UNCHANGED << arg, batcherVars, retryVars, hookVars, cacheVars, geometryVars >>

SpecPercentage == InitPercentage /\ [][ComputePercentage]_vars

\* ------------------------------------------------ the cache's operations
\* The ids the callers pass: an id is any string, and strings that hold the
\* key's separator are among them.
TokenIds == { << "a" >>, << "a", "-", "b" >> }
UserIds == { << "u" >>, << "b", "-", "u" >> }

\* What a caller reads off the token and the observer: currentHP,
\* hpArcPercent and passivePerception.  7 of 20, 7 of 14 and 9 of 20 hit
\* points, seen with perception 10 or 20.
Readings ==
  { << 7, 35 * (ONE \div 100), 10 >>,
    << 7, 50 * (ONE \div 100), 20 >>,
    << 9, 45 * (ONE \div 100), 10 >> }

\* The pair's entry of the history seen: none or one.
SeenOf(l, tokenId, userId) ==
  {x \in l : x.tokenId = tokenId /\ x.userId = userId}

GetHPUncertainty(tokenId, userId, currentHP, hpArcPercent, passivePerception) ==
  LET r == getHPUncertainty(uncertaintyMap, settings, tokenId, userId,
                            currentHP, hpArcPercent, passivePerception)
      call == [ tokenId |-> tokenId, userId |-> userId,
                actual |-> currentHP, hpArcPercent |-> hpArcPercent,
                passivePerception |-> passivePerception,
                percent |-> r.result.percent,
                computed |-> r.computed, at |-> cacheOps + 1 ]
  IN  /\ cacheOps < MaxCacheOps
      /\ uncertaintyMap' = r.map
      /\ cacheOps' = cacheOps + 1
      /\ cacheOp' = << "getHPUncertainty", tokenId, userId >>
      /\ lastCall' = << [ call |-> call,
                          prior |-> SeenOf(seen, tokenId, userId) ] >>
      /\ seen' = IF tokenId = <<>> \/ userId = <<>> THEN seen
                 ELSE (seen \ SeenOf(seen, tokenId, userId)) \cup
                      { [ tokenId |-> tokenId, userId |-> userId,
                          actual |-> r.result.actual,
                          percent |-> r.result.percent ] }
      /\ shown' = shown \cup {call}
      /\ UNCHANGED << settings, arg, res, batcherVars, retryVars, hookVars, geometryVars >>

\* A pair's entry of seen goes when the pair's record is deleted.
ClearTokenUncertainty(tokenId) ==
  /\ cacheOps < MaxCacheOps
  /\ uncertaintyMap' = clearTokenUncertainty(uncertaintyMap, tokenId)
  /\ cacheOps' = cacheOps + 1
  /\ cacheOp' = << "clearTokenUncertainty", tokenId >>
  /\ seen' = IF tokenId = <<>> THEN seen
             ELSE {x \in seen :
                     ~startsWith(_createCacheKey(x.tokenId, x.userId),
                                 tokenId \o << "-" >>)}
  /\ UNCHANGED << settings, lastCall, shown, arg, res, batcherVars, retryVars, hookVars,
                  geometryVars >>

ClearAll ==
  /\ cacheOps < MaxCacheOps
  /\ uncertaintyMap' = clearAll(uncertaintyMap)
  /\ cacheOps' = cacheOps + 1
  /\ cacheOp' = << "clearAll" >>
  /\ seen' = {}
  /\ UNCHANGED << settings, lastCall, shown, arg, res, batcherVars, retryVars, hookVars,
                  geometryVars >>

NextCache ==
  \/ \E tokenId \in TokenIds, userId \in UserIds, r \in Readings :
       GetHPUncertainty(tokenId, userId, r[1], r[2], r[3])
  \/ \E tokenId \in TokenIds : ClearTokenUncertainty(tokenId)
  \/ ClearAll

SpecCache == Init /\ [][NextCache]_vars

\* ------------------------------------------------ the cache at its edges
\* Calls with an empty id, for an entity with 1 of 200 hit points, and with
\* settings that do not answer.
UnavailableSettings == [DefaultSettings EXCEPT !.available = FALSE]
EdgeTokenIds == { <<>>, << "a" >> }
EdgeUserIds == { <<>>, << "u" >> }
EdgeReadings ==
  { << 1, ONE \div 200, 10 >>,
    << 7, 35 * (ONE \div 100), 10 >> }

InitCacheEdge ==
  /\ InitBatcher
  /\ InitGeometry
  /\ InitHooks
  /\ InitRenderer
  /\ \E cfg \in {DefaultSettings, UnavailableSettings} : InitCacheWith(cfg)
  /\ arg = <<>>
  /\ res = <<>>

NextCacheEdge ==
  \/ \E tokenId \in EdgeTokenIds, userId \in EdgeUserIds,
        r \in EdgeReadings :
       GetHPUncertainty(tokenId, userId, r[1], r[2], r[3])
  \/ \E tokenId \in EdgeTokenIds : ClearTokenUncertainty(tokenId)
  \/ ClearAll

SpecCacheEdge == InitCacheEdge /\ [][NextCacheEdge]_vars

\* -------------------------------------------- the start and its retries
\* maxRetries and delayMs: none, one and the default number of retries,
\* -1 for a caller's slip, and the default delay or half of it.
RetryArgs == {-1, 0, 1, RETRY_MAX_ATTEMPTS} \X {RETRY_BASE_DELAY_MS \div 2, RETRY_BASE_DELAY_MS}

InitRetry ==
  /\ InitBatcher
  /\ InitGeometry
  /\ InitHooks
  /\ InitCache
  /\ retryCount = 0
  /\ rendererFunctions = "null"
  /\ attempts = <<>>
  /\ installs = 0
  /\ drawn = 0
  /\ ready \in BOOLEAN
  /\ arg \in RetryArgs
  /\ res = <<>>

\* One call of initialiseRenderer, and what its caller does when it
\* succeeds: setRendererFunctions and the timer of the initial draw.
Attempt(h) ==
  LET r == initialiseRenderer(Batcher, updateFunction, uncertaintyMap, ready)
  IN  /\ Becomes(r.b)
      /\ updateFunction' = r.updateFunction
      /\ uncertaintyMap' = r.map
      /\ attempts' = Append(attempts,
                            [ at |-> hookNow, success |-> r.success,
                              queued |-> Len(updateQueue),
                              cached |-> Cardinality(uncertaintyMap) ])
      /\ IF r.success
         THEN /\ HooksBecome(scheduleDraw(h, hookNow))
              /\ rendererFunctions' = "set"
              /\ installs' = installs + 1
              /\ retryCount' = retryCount
              /\ frames' = MarkCleared(frames)
              /\ owed' = NothingOwed
              /\ lastReq' = {}
              /\ asked' = {}
              /\ wanted' = "_drawHealthArcImpl"
              /\ lastOp' = Then("initialise")
              /\ seen' = {}
         ELSE /\ IF attempts = <<>> /\ arg[1] <= 0
                 THEN HooksBecome(h) /\ retryCount' = retryCount
                 ELSE IF attempts = <<>> \/ retryCount < arg[1]
                 THEN /\ HooksBecome(attemptRetry(h, retryCount + 1, arg[2],
                                                  hookNow))
                      /\ retryCount' = retryCount + 1
                 ELSE HooksBecome(h) /\ retryCount' = retryCount
              /\ UNCHANGED << rendererFunctions, installs, frames, owed,
                              lastReq, asked, wanted, lastOp, seen >>
      /\ UNCHANGED << run, now, calls, settings, cacheOps, cacheOp, lastCall,
                      shown, hookNow, hookCalls, ready, drawn, arg, res,
                      geometryVars >>

\* initialiseRendererWithRetry(maxRetries, delayMs), called once by the
\* 'ready' hook.
InitialiseRendererWithRetry ==
  /\ attempts = <<>>
  /\ Attempt(Hooks)

\* The host runs the timer t of the start: a retry or the initial draw.
RetryTimerFires(t) ==
  /\ FirstDue(t)
  /\ t.callback \in {"retry", "draw"}
  /\ IF t.callback = "retry"
     THEN Attempt(clearHookTimeout(Hooks, t.id))
     ELSE /\ HooksBecome(clearHookTimeout(Hooks, t.id))
          /\ drawn' = drawn + 1
          /\ UNCHANGED << hookNow, hookCalls, ready, retryCount,
                          rendererFunctions, attempts, installs, arg, res,
                          batcherVars, cacheVars, geometryVars >>

\* Time passes to the next timer once the timers that are due have run.
RetryTick ==
  /\ hookTimers # {}
  /\ DueTimers = {}
  /\ \E t \in hookTimers :
       /\ \A u \in hookTimers : t.due <= u.due
       /\ hookNow' = t.due
  /\ UNCHANGED << inThrottle, lastArgs, timeoutId, timeout, hookTimers,
                  hookSeq, hookCalls, invoked, retryVars, arg, res,
                  batcherVars, cacheVars, geometryVars >>

\* PIXI and the canvas come and go.
CanvasChanges ==
  /\ ready' = ~ready
  /\ UNCHANGED << retryCount, rendererFunctions, attempts, installs, drawn,
                  hookVars, arg, res, batcherVars, cacheVars, geometryVars >>

NextRetry ==
  \/ InitialiseRendererWithRetry
  \/ \E t \in hookTimers : RetryTimerFires(t)
  \/ RetryTick
  \/ CanvasChanges
  \/ QueueUpdate([id |-> "a", obj |-> 1], Plain)
  \/ GetHPUncertainty(<< "a" >>, << "u" >>, 7, 35 * (ONE \div 100), 10)

SpecRetry == InitRetry /\ [][NextRetry]_vars

\* The host runs its timers: a timer that is due fires, and time goes on to
\* the next one.
SpecRetryFair ==
  SpecRetry /\ WF_vars(RetryTick \/ \E t \in hookTimers : RetryTimerFires(t))

\* ===================================================================
\* Properties
\* ===================================================================
\* Nothing is pending: no timer, no animation frame, no handler running.
Quiescent == ~Running /\ timers = {} /\ frames = <<>>

\* The QueuedToken record a batch holds for a token.
EntryOf(c, t) == CHOOSE x \in QueueEntries(c.sorted) : x.token = t

\* The tokens of the sorted records, in order.
TokensOf(recs) == [k \in 1..Len(recs) |-> recs[k].token]

IsPrefix(s, t) == Len(s) <= Len(t) /\ \A k \in 1..Len(s) : s[k] = t[k]

\* C1: a request made while a batch is in flight is served by a later batch
\* without a further queueUpdate: once nothing is pending any more, no such
\* request is still owed.
C1_InFlightRequestServed ==
  Quiescent => \A d \in Ids : owed[d] # "inflight"

\* C2: a throw of the render callback does not abort the batch: a handler
\* that ends without requesting a continuation has passed every entry after
\* the one it is at to the callback.
C2_ThrowDoesNotAbort ==
  [][ (Running /\ ~Running' /\ Len(frames') = Len(frames))
        => run[1].i + 1 >= Len(run[1].tokensToProcess) ]_vars

\* C3: after clear() the callback is invoked on no entry queued before it:
\* a batch that clear() interrupted passes no further entry to the callback.
C3_NoCallAfterClear ==
  \A c \in Chains : c.clearedAt >= 0 => Len(c.called) = c.clearedAt

\* C7: a request made after a clear() that interrupted a batch is served,
\* however the interrupted batch's continuation interleaves: once nothing is
\* pending any more, no such request is still owed.
C7_RequestAfterClearServed ==
  Quiescent => \A d \in Ids : owed[d] # "afterclear"

\* x is processed before y: smaller priority number first, and of two
\* entries of equal priority the one queued later first.
Before(x, y) ==
  \/ x.priority < y.priority
  \/ x.priority = y.priority /\ x.timestamp >= y.timestamp

\* C4: within one batch the callback is invoked in priority order, and
\* among entries of equal priority the later queued one first.
C4_PriorityOrder ==
  \A c \in Chains :
    \A j, k \in 1..Len(c.called) :
      j < k => Before(EntryOf(c, c.called[j]), EntryOf(c, c.called[k]))

\* A CRITICAL entity queued after a lower-priority one has been invoked
\* before it.
C4_Witness ==
  \E c \in Chains :
    /\ Len(c.called) = 2
    /\ EntryOf(c, c.called[1]).priority = CRITICAL
    /\ EntryOf(c, c.called[2]).priority > CRITICAL
    /\ EntryOf(c, c.called[1]).timestamp > EntryOf(c, c.called[2]).timestamp

\* C5: the queue holds at most one entry per id, that entry is the token,
\* priority and timestamp of the last queueUpdate for the id, and no batch
\* invokes the callback twice for one id.
C5_OneEntryPerId ==
  /\ \A j, k \in 1..Len(updateQueue) :
       j # k => updateQueue[j].id # updateQueue[k].id
  /\ QueueEntries(updateQueue) = lastReq
  /\ \A c \in Chains :
       \A j, k \in 1..Len(c.called) : j # k => c.called[j].id # c.called[k].id

\* The entry of id "a", queued first, has been replaced in place by a later
\* request with another token object and another priority.
C5_Witness ==
  /\ lastOp = "requeue"
  /\ Len(updateQueue) = 2
  /\ updateQueue[1].token = [id |-> "a", obj |-> 2]
  /\ updateQueue[1].priority = CRITICAL
  /\ updateQueue[1].timestamp > updateQueue[2].timestamp

\* C6: what a batch processes, and in which order, is fixed when the timer
\* fires: the tokens passed to the callback are, in order, those of the queue
\* as it was sorted then, whatever is queued afterwards.
C6_BatchFixedAtTimer ==
  \A c \in Chains :
    /\ c.tokensToProcess = TokensOf(c.sorted)
    /\ IsPrefix(c.called, TokensOf(c.sorted))

\* The callback has just been invoked on the token object the batch took
\* when the timer fired, while the queue holds a later request for the same
\* id with another object and a higher priority.
C6_Witness ==
  /\ lastOp = "invoke"
  /\ \E c \in Chains :
       /\ Len(c.called) = 2
       /\ c.called[2] = [id |-> "a", obj |-> 1]
       /\ \E e \in QueueEntries(updateQueue) :
            e.token = [id |-> "a", obj |-> 2] /\ e.priority = CRITICAL

\* clear() has nothing left to do.
Cleared == updateQueue = <<>> /\ ~isProcessing /\ timers = {}

\* C8: with no batch in flight, clear() leaves an empty queue, the flag down
\* and no timer that will fire; a clear() in that state changes nothing; and
\* a request made with the flag down and no batch pending has been served by
\* the time nothing is pending (unless clear() discarded it or a throw
\* aborted its batch).
C8_ClearIdempotent ==
  /\ []((lastOp \in {"clear", "clearAgain"} /\ Chains = {}) => Cleared)
  /\ [][ (lastOp' \in {"clear", "clearAgain"} /\ Cleared /\ Chains = {})
           => UNCHANGED << updateQueue, updateFunction, isProcessing,
                           processingTimer, timers, timerSeq, frames, run >>
       ]_vars
  /\ [](Quiescent => \A d \in Ids : owed[d] # "fresh")

\* clear() has been called twice in a row, with no batch in flight, on a
\* scheduler that had set a timer before.
C8_Witness ==
  lastOp = "clearAgain" /\ Chains = {} /\ timerSeq > 0

\* C9: when the last entry of a batch has been processed the handler empties
\* the queue and resets the flag; a queueUpdate made with the flag down sets
\* the flag and one new timer; and that timer, when it fires on a non-empty
\* queue, starts a batch of the queue's entries.
C9_FinishResets ==
  /\ [](lastOp = "finish" => updateQueue = <<>> /\ ~isProcessing)
  /\ [][ (Running /\ run[1].i >= Len(run[1].tokensToProcess) /\ run' # run)
           => (~Running' /\ updateQueue' = <<>> /\ ~isProcessing') ]_vars
  /\ [][ (~isProcessing /\ calls' = calls + 1 /\ updateQueue' # <<>>)
           => /\ isProcessing'
              /\ timerSeq' = timerSeq + 1
              /\ processingTimer' = timerSeq'
              /\ timers' = {timerSeq'} ]_vars
  /\ [][ (~Running /\ lastOp' = "timer" /\ timers' # timers
            /\ updateFunction # "null" /\ updateQueue # <<>>)
           => /\ Running'
              /\ run'[1].called = <<>>
              /\ QueueEntries(run'[1].sorted) = QueueEntries(updateQueue)
       ]_vars

\* A batch has finished and the first queueUpdate after it has set the flag
\* and a second timer.
C9_Witness ==
  /\ lastOp = "restart"
  /\ isProcessing
  /\ Len(updateQueue) = 1
  /\ processingTimer = 2
  /\ timers = {2}

\* C10: the first queueUpdate after an idle period sets exactly one timer
\* and invokes no callback; a queueUpdate made while the flag is up sets or
\* resets no timer; at most one timer is pending; the batch that starts
\* when the timer fires holds every entity of the queue, once; and every
\* entity requested with no batch pending, by the first call or while the
\* timer was pending, and not discarded by clear(), is in that batch.
C10_Debounce ==
  /\ [](Cardinality(timers) <= 1)
  /\ [][ (~Running /\ ~isProcessing /\ calls' = calls + 1
            /\ updateQueue' # <<>>)
           => /\ Cardinality(timers' \ timers) = 1
              /\ Cardinality(timers') = 1
              /\ ~Running'
              /\ frames' = frames ]_vars
  /\ [][ (isProcessing /\ calls' = calls + 1)
           => /\ timers' = timers
              /\ processingTimer' = processingTimer
              /\ timerSeq' = timerSeq ]_vars
  /\ [][ (~Running /\ lastOp' = "timer" /\ timers' # timers
            /\ updateFunction # "null" /\ updateQueue # <<>>)
           => /\ Running'
              /\ Len(run'[1].tokensToProcess) = Len(updateQueue)
              /\ {run'[1].tokensToProcess[k] :
                    k \in 1..Len(run'[1].tokensToProcess)}
                 = {updateQueue[k].token : k \in 1..Len(updateQueue)}
       ]_vars
  /\ [][ (~Running /\ lastOp' = "timer" /\ timers' # timers)
           => \A d \in Ids :
                owed[d] \in {"fresh", "burst"}
                  => Running' /\ d \in QueueIds(run'[1].sorted) ]_vars

\* The timer has fired and started one batch of the two entities that were
\* queued, one after the other, before it fired.
C10_Witness ==
  /\ lastOp = "timer"
  /\ Running
  /\ run[1].batch = 1
  /\ Len(run[1].tokensToProcess) = 2
  /\ run[1].called = <<>>
  /\ calls = 2

\* The handler calls the render callback in this step.
Invokes == Running /\ run[1].i < run[1].endIndex /\ run' # run

\* C11: an entry queued while no callback is installed is never passed to a
\* callback installed later: the callback is not invoked on an entity whose
\* last request was made before initialise().
C11_NoRetroactiveFlush ==
  [][ Invokes => owed[entryAt(run[1], updateQueue).id] # "uninit" ]_vars

\* C14: a throw of the render callback does not leave the scheduler stuck:
\* once nothing is pending after it, the flag is down.
C14_NotStuckAfterThrow ==
  (lastOp = "throw" /\ Quiescent) => ~isProcessing

\* The priority the claim gives a token in state st.
ClaimedPriority(st) ==
  IF st.controlled \/ st.combatant \/ st.actorCombatant THEN CRITICAL
  ELSE IF st.hover THEN HIGH
  ELSE NORMAL

AllTokenStates ==
  { TokenState(c, m, a, h) : c \in BOOLEAN, m \in BOOLEAN, a \in BOOLEAN,
                             h \in BOOLEAN }

C18_InvalidTokenSkipped ==
  /\ [][ (lastOp' = "skipped" /\ calls' = calls + 1)
           => UNCHANGED << updateQueue, isProcessing, processingTimer, timers,
                           timerSeq, frames, run >> ]_vars
  /\ [](\A e \in QueueEntries(updateQueue) : e.id # "")
  /\ [](\A c \in Chains :
         \A k \in 1..Len(c.tokensToProcess) : c.tokensToProcess[k].id # "")

\* queueUpdate has just been called with an invalid token while an entry is
\* queued and the timer is pending.
C18_Witness ==
  /\ lastOp = "skipped"
  /\ Len(updateQueue) = 1
  /\ isProcessing
  /\ timers = {processingTimer}

\* C12: one run of the processor, the timer callback or one animation-frame
\* continuation, invokes the callback at most batchSize <= 12 times, and the
\* timer callback of a batch with more entries than batchSize ends by
\* requesting a continuation for the rest.
C12_FrameBounded ==
  /\ [](\A c \in Chains : c.batchSize \in 1..BATCH_BASE_SIZE)
  /\ [](Running =>
         /\ run[1].i - run[1].startIndex <= run[1].batchSize
         /\ Len(run[1].called) - run[1].startIndex
              = run[1].i - run[1].startIndex
         /\ run[1].inTimer => Len(run[1].called) <= run[1].batchSize)
  /\ [][ (Running /\ ~Running' /\ run[1].inTimer /\ lastOp' # "throw"
            /\ Len(run[1].tokensToProcess) > run[1].batchSize)
           => /\ Len(frames') = Len(frames) + 1
              /\ frames'[Len(frames')].startIndex <= run[1].batchSize
              /\ frames'[Len(frames')].startIndex
                   < Len(run[1].tokensToProcess) ]_vars

\* A continuation that started at the end of the first chunk of 11 has
\* passed a full chunk of 11 to the callback.
C12_Witness ==
  /\ Running
  /\ ~run[1].inTimer
  /\ run[1].batchSize = BATCH_BASE_SIZE - 1
  /\ run[1].startIndex = run[1].batchSize
  /\ run[1].i = run[1].startIndex + run[1].batchSize

\* C13: whatever the yields, the entries of the sorted snapshot are passed
\* to the callback in order, each once: every handler stands at the first
\* entry not yet passed, and the batch finishes with all of them passed.
C13_ExactlyOnceInOrder ==
  /\ [](\A c \in Chains :
         /\ Len(c.called) <= Len(c.sorted)
         /\ c.called = SubSeq(TokensOf(c.sorted), 1, Len(c.called)))
  /\ [](Running => run[1].i = Len(run[1].called))
  /\ [](\A k \in 1..Len(frames) : frames[k].startIndex = Len(frames[k].called))
  /\ [][ (Running /\ ~Running' /\ lastOp' = "finish")
           => run[1].called = TokensOf(run[1].sorted) ]_vars

\* A continuation requested right after the last entry of a batch of more
\* than 12 entries has started, with nothing left to pass.
C13_Witness ==
  /\ lastOp = "frame"
  /\ Running
  /\ Len(run[1].tokensToProcess) > BATCH_BASE_SIZE
  /\ run[1].startIndex = Len(run[1].tokensToProcess)
  /\ run[1].called = TokensOf(run[1].sorted)
  /\ run[1].clearedAt < 0

\* C15: the batch size of a queue of n entries is between 1 and
\* BATCH_BASE_SIZE and no greater than that of any shorter queue.
C15_BatchSizeRange ==
  res # <<>> =>
    /\ res[1] >= 1
    /\ res[1] <= BATCH_BASE_SIZE
    /\ \A m \in 0..arg : batchSize(m) >= res[1]

\* The quotient is 0 and the batch size is 1.
C15_Witness ==
  res = <<1>> /\ arg > BATCH_BASE_SIZE * 30

\* The callback the handler's last step called.
CalledBy ==
  IF Running THEN run[1].by ELSE frames[Len(frames)].by

\* C17: initialise(g) replaces the callback: the field holds the argument
\* of the last initialise(), and every invocation calls the callback that
\* the last initialise() before it installed.
C17_InitialiseReplaces ==
  /\ [](updateFunction = wanted)
  /\ [][ Invokes => CalledBy' = wanted ]_vars

\* The callback f has rebound the scheduler to g while entries of its batch
\* are still to be passed.
C17_Witness ==
  /\ updateFunction = "g"
  /\ \E c \in Chains :
       c.by = "f" /\ Len(c.called) < Len(c.tokensToProcess)

\* C19: sticky noise.  A getHPUncertainty call for a pair whose last call
\* since its record was cleared had the same actual value returns the
\* percent that call returned, whatever hpArcPercent and passivePerception
\* it is given; and a call computes a record anew only when the pair has no
\* such call or the actual value differs from that call's.
C19_StickyPerPair ==
  \A c \in {lastCall[k] : k \in 1..Len(lastCall)} :
    /\ \A x \in c.prior :
         x.actual = c.call.actual => c.call.percent = x.percent
    /\ c.call.computed => \A x \in c.prior : x.actual # c.call.actual

\* Two calls with the same entity, actual value, hpArcPercent and
\* passivePerception.
SameReading(x, y) ==
  /\ x.tokenId = y.tokenId
  /\ x.actual = y.actual
  /\ x.hpArcPercent = y.hpArcPercent
  /\ x.passivePerception = y.passivePerception

LastCalls == {lastCall[k] : k \in 1..Len(lastCall)}

\* C21: a living entity never shows an empty indicator.  Every call of
\* getHPUncertainty with an actual value above 0 returns a percent of at
\* least 0.01, on every return path.
C21_LivingShowsSliver ==
  \A c \in LastCalls : c.call.actual > 0 => c.call.percent >= SLIVER

\* C22: the uncertainty magnitude is clamped to the configured range.  For
\* every score and every admissible configuration the modifier is at least
\* 0 and at most the configured maximum uncertainty.
C22_ModifierWithinCeiling ==
  \A k \in 1..Len(res) : 0 <= res[k] /\ res[k] <= getMaxUncertainty(settings)

\* C23: monotonic acuity effect.  Under one configuration the modifier of
\* the higher of two scores is at most the modifier of the lower one.
C23_Monotonic ==
  res # <<>> /\ arg[1] <= arg[2] => res[2] <= res[1]

\* C23: two scores whose modifiers differ, both between 0 and the value at
\* the lowest score.
C23_Witness ==
  /\ res # <<>>
  /\ arg[1] < arg[2]
  /\ 0 < res[2]
  /\ res[2] < res[1]

\* clamp(x, 0, 1).
Clamp01(x) == Max(0, Min(ONE, x))

\* C24: a freshly computed displayed value is
\* clamp(baseRatio + (2 * hash - 1) * magnitude, 0, 1), raised to 0.01 when
\* the actual value is above 0; it lies in [0, 1], and where neither the
\* clamp nor the floor acted it differs from baseRatio by at most the
\* magnitude.
C24_DisplayedValue ==
  \A k \in 1..Len(res) :
    LET hash == _getRandomSeed(arg[1], toString(arg[2]))
        value == Clamp01(arg[3] + (2 * hash - SEED_RANGE) * arg[4])
    IN  /\ res[k] = IF arg[2] > 0 THEN Max(SLIVER, value) ELSE value
        /\ 0 <= res[k]
        /\ res[k] <= ONE
        /\ SLIVER < res[k] /\ res[k] < ONE =>
             /\ res[k] - arg[3] <= arg[4] * SEED_RANGE
             /\ arg[3] - res[k] <= arg[4] * SEED_RANGE

\* C24: the example of the specification, a living entity at baseRatio
\* 0.35 under magnitude 0.30, shown with noise between 0.05 and 0.65.
C24_Witness ==
  /\ res # <<>>
  /\ arg[2] = 7
  /\ arg[3] = 35 * (ONE \div 100)
  /\ arg[4] = 30
  /\ res[1] # arg[3]
  /\ 5 * (ONE \div 100) <= res[1]
  /\ res[1] <= 65 * (ONE \div 100)

\* C25: the seed hash is a function of the concatenated seed string alone
\* (however the string is cut into tokenId and hpValue) and lies in
\* [0, 1), also where the wrapped 32-bit hash is negative or -2^31.
C25_SeedInUnitInterval ==
  \A k \in 1..Len(res) :
    /\ 0 <= res[k]
    /\ res[k] < SEED_RANGE
    /\ res[k] = _getRandomSeed(<<>>, arg[1] \o arg[2])

\* C25: the seed whose hash wraps to -2^31.
C25_Witness ==
  /\ res # <<>>
  /\ hashLoop(<< 0, 0 >>, arg[1] \o arg[2]) = << HALF \div 2, 0 >>
  /\ arg[2] = << "7" >>

\* C26: records are keyed by the (entity, observer) pair.  A call that is
\* answered from the cache is answered from a record an earlier call for
\* the same pair left, and the record a pair's last call left stays in the
\* cache as it was until that pair is asked for again or it is cleared: no
\* call for another pair creates, overwrites or reads it.
C26_KeyedByPair ==
  /\ \A c \in LastCalls :
       (c.call.tokenId # <<>> /\ c.call.userId # <<>> /\ ~c.call.computed)
         => c.prior # {}
  /\ \A x \in seen :
       [ key |-> _createCacheKey(x.tokenId, x.userId),
         actual |-> x.actual, percent |-> x.percent ] \in uncertaintyMap

C28_FallbackModifier ==
  ~settings.available =>
    \A c \in LastCalls :
      ( /\ c.call.tokenId # <<>>
        /\ c.call.userId # <<>>
        /\ \A x \in c.prior : x.actual # c.call.actual )
      => /\ c.call.computed
         /\ c.call.percent =
              _calculateUncertaintyPercentage(
                c.call.tokenId, c.call.actual, c.call.hpArcPercent,
                FALLBACK_MODIFIER)
         /\ cacheOp[1] = "getHPUncertainty" =>
              [ key |-> _createCacheKey(c.call.tokenId, c.call.userId),
                actual |-> c.call.actual,
                percent |-> c.call.percent ] \in uncertaintyMap

\* C28: with settings that do not answer the call has just returned a
\* record whose percent is neither hpArcPercent nor what the default
\* settings give.
C28_Witness ==
  /\ ~settings.available
  /\ cacheOp[1] = "getHPUncertainty"
  /\ \E c \in LastCalls :
       /\ c.call.computed
       /\ c.call.percent # c.call.hpArcPercent
       /\ c.call.percent #
            _calculateUncertaintyPercentage(
              c.call.tokenId, c.call.actual, c.call.hpArcPercent,
              _calculateUncertaintyModifier(DefaultSettings,
                                            c.call.passivePerception))

\* The last getTokenGeometry call: none or one.
GeometryCalls == {geometryCall[k] : k \in 1..Len(geometryCall)}

\* C29: getTokenGeometry returns the cached record when the map holds one
\* for the token's id: the record an earlier call stored, with its
\* lastUpdated and arc geometry, whatever the token's size is now (stated
\* for tokens that can be read without an error).
C29_CachedRecordReturned ==
  \A c \in GeometryCalls :
    \A g \in c.prior :
      c.token.id # "" /\ ~c.token.faulty => c.result = << g >>

\* C30: getTokenGeometry never throws.  For a missing token, a token
\* without an id and a token whose geometry cannot be computed it returns
\* the fallback record, made of the token's raw width and height alone:
\* radius = width + 40, stroke = 4, both scales 1, where width and height
\* default to 100 and the id to 'unknown'.  (The token's id, w and h are
\* what the fallback reads; the failure of a computation is a texture that
\* cannot be read.)
C30_FallbackNeverThrows ==
  \A c \in GeometryCalls :
    LET t == c.token
        width == IF t.present /\ t.w # 0 THEN t.w ELSE 100
        height == IF t.present /\ t.h # 0 THEN t.h ELSE 100
    IN  /\ ~c.threw
        /\ (~t.present \/ t.id = "" \/ t.faulty) =>
             c.result =
               << [ id |-> IF t.present /\ t.id # "" THEN t.id
                           ELSE "unknown",
                    width |-> width,
                    height |-> height,
                    scaleX |-> SCALE_ONE,
                    scaleY |-> SCALE_ONE,
                    arcGeometry |-> [ arcRadius |-> width + 40,
                                      adjustedArcStroke |-> 4,
                                      arcStart |-> 0,
                                      arcEnd |-> 0 - ARC_SPAN ],
                    lastUpdated |-> c.at ] >>

\* C30: the geometry of entity "a" could not be computed while the map held
\* a record for it, and the call returned the fallback record.
C30_Witness ==
  \E c \in GeometryCalls :
    /\ c.token.faulty
    /\ c.token.id = "a"
    /\ c.prior # {}
    /\ ~c.threw
    /\ c.result[1].arcGeometry.arcRadius = 140

\* C31: the lastUpdated of the record the map holds for an id never
\* decreases from one state to the next (the clock never goes back), and a
\* call that computes the geometry of a token returns and stores a record
\* whose lastUpdated is the time of that call.
C31_LastUpdatedMonotonic ==
  /\ [](\A c \in GeometryCalls :
          c.token.present /\ c.token.id # "" /\ ~c.token.faulty =>
            c.result[1].lastUpdated = c.at)
  /\ [][/\ clock' >= clock
        /\ \A g \in tokenGeometryMap, h \in tokenGeometryMap' :
             g.id = h.id => g.lastUpdated <= h.lastUpdated
        /\ \A token \in GeometryTokens, random \in BOOLEAN :
             /\ GetTokenGeometry(token, random)
             /\ token.present /\ token.id # "" /\ ~token.faulty
             => \E h \in tokenGeometryMap' :
                  /\ h.id = token.id
                  /\ h.lastUpdated = clock
                  /\ geometryCall'[1].result = << h >>]_vars

\* C31: entity "a" was drawn, time passed, and a second call replaced its
\* record by one with a later lastUpdated.
C31_Witness ==
  \E c \in GeometryCalls :
    /\ c.token.id = "a"
    /\ \E g \in c.prior : g.lastUpdated < c.at
    /\ c.result[1] \in tokenGeometryMap
    /\ c.result[1].lastUpdated = c.at

\* C32: a call of getTokenGeometry removes records of other ids only when
\* it inserted a record and the map then held more than 50; when the sweep
\* runs at time now (more than 50 records and Math.random() below 0.01) the
\* map keeps, of the other ids, exactly the records with
\* lastUpdated >= now - 10000, and it keeps the record just inserted; a
\* call adds no record but the one it computed.  Over a whole pass as well, a record
\* that goes while others stay is older than now - 10000.
C32_SweepEvictsExpired ==
  [][/\ \A token \in SweepTokens, random \in BOOLEAN :
          GetTokenGeometry(token, random) =>
            LET inserted == token.present /\ token.id # "" /\ ~token.faulty
                others_ == {g \in tokenGeometryMap : g.id # token.id}
                size == Cardinality(GeometryIds(others_) \cup {token.id})
                swept == inserted /\ random /\ size > 50
                cutoff == clock - 10000
            IN  /\ (\E g \in others_ : g \notin tokenGeometryMap')
                     => inserted /\ size > 50
                /\ swept =>
                     /\ \A g \in others_ :
                          g \in tokenGeometryMap' <=> g.lastUpdated >= cutoff
                     /\ geometryCall'[1].result[1] \in tokenGeometryMap'
                /\ ~swept => others_ \subseteq tokenGeometryMap'
                /\ \A h \in tokenGeometryMap' :
                     \/ h \in others_
                     \/ IF inserted THEN geometryCall'[1].result = << h >>
                        ELSE h \in tokenGeometryMap
     /\ \A g \in tokenGeometryMap :
          tokenGeometryMap' # {} /\ g.id \notin GeometryIds(tokenGeometryMap')
            => g.lastUpdated < clock - 10000]_vars

\* C32: a scene of 52 tokens was drawn, the time to live and a millisecond
\* passed, 50 of the tokens were drawn again, and the call for entity "a"
\* that followed swept the two records that were not refreshed and kept
\* the 50 that were and its own.
C32_Witness ==
  \E c \in GeometryCalls :
    /\ c.token.id = "a"
    /\ c.random
    /\ c.at = 10001
    /\ c.dropped = {"t51", "t52"}
    /\ Cardinality(tokenGeometryMap) = 51
    /\ c.result[1] \in tokenGeometryMap

\* C33: for a token of rendered width w > 0 and texture width t (w when it
\* has no texture) the stroke is s = 4 / (w / t), that is s * w = 4 * t, and
\* the radius is the larger of t/2 + s/2 + 40 and 0.75 * w (stated in
\* quarters); so the radius is at least 0.75 * w and at least t/2 + 40.
C33_ArcRadius ==
  \A c \in GeometryCalls :
    LET w == c.token.w
        t == IF c.token.texture = <<>> THEN w ELSE c.token.texture[1].width
        s == c.result[1].arcGeometry.adjustedArcStroke
        r == c.result[1].arcGeometry.arcRadius
    IN  c.token.id # "" /\ ~c.token.faulty /\ w > 0 =>
          /\ s * w = 4 * t
          /\ 4 * r = IF 2 * t + 2 * s + 160 > 3 * w
                     THEN 2 * t + 2 * s + 160 ELSE 3 * w
          /\ 4 * r >= 3 * w
          /\ 2 * r >= t + 80

\* C33: a token of width 400 with a texture of width 200: the radius is
\* 0.75 * 400 = 300, more than 100 + 1 + 40.
C33_Witness ==
  \E c \in GeometryCalls :
    /\ c.token.w = 400
    /\ c.token.texture # <<>>
    /\ c.token.texture[1].width = 200
    /\ c.result[1].arcGeometry.adjustedArcStroke = 2
    /\ c.result[1].arcGeometry.arcRadius = 300

\* C34: whenever the processing flag is down the update queue is empty:
\* what resets the flag (clear(), the end of a batch, the timer callback's
\* cleanup) empties the queue, and a queueUpdate that adds an entry leaves
\* the flag up.
C34_IdleMeansEmpty == ~isProcessing => updateQueue = <<>>

\* C34: clear() ran while a batch of queued entries was being drained; the
\* flag is down and the queue empty.
C34_Witness ==
  /\ lastOp = "clear"
  /\ \E c \in Chains : c.clearedAt >= 0 /\ Len(c.tokensToProcess) > 1
  /\ ~isProcessing
  /\ updateQueue = <<>>

\* C35: at most one batch is in flight: there are never two
\* processNextBatch chains, pending as an animation-frame continuation or
\* running, at the same time.
C35_OneBatchInFlight == Len(frames) + Len(run) <= 1

\* C36: clearTokenUncertainty(entity) leaves the record of every other
\* entity as it is: for every id other than the one cleared (ids that hold
\* a '-' or begin with the cleared id among them) and every observer, the
\* map holds the same record for the pair before and after the call.
C36_OtherEntitiesKept ==
  [][ (cacheOp'[1] = "clearTokenUncertainty" /\ cacheOps' = cacheOps + 1)
        => \A tokenId \in TokenIds, userId \in UserIds :
             tokenId # cacheOp'[2] =>
               mapGet(uncertaintyMap', _createCacheKey(tokenId, userId))
                 = mapGet(uncertaintyMap, _createCacheKey(tokenId, userId))
    ]_vars

\* The invocations of func with the arguments of call k.
InvocationsOf(k) ==
  {i \in 1..Len(invoked) : invoked[i].args = hookCalls[k].args}

\* Call k came during a throttle period and no later call came during the
\* same period.
LastSuppressed(k) ==
  /\ hookCalls[k].suppressed
  /\ k = Len(hookCalls) \/ ~hookCalls[k + 1].suppressed

\* C37: a call of the throttled function made outside a throttle period
\* invokes func at once with its arguments.  Of the calls made during a
\* throttle period, the arguments of all but the last are never passed to
\* func; for the last, func is invoked once with its arguments, limit after
\* that call: until then the timer that will do so is pending, due limit
\* after the call.
C37_ThrottleTrailing ==
  \A k \in 1..Len(hookCalls) :
    LET c == hookCalls[k]
    IN  /\ ~c.suppressed => \E i \in InvocationsOf(k) : invoked[i].at = c.at
        /\ (c.suppressed /\ ~LastSuppressed(k)) => InvocationsOf(k) = {}
        /\ LastSuppressed(k) =>
             /\ Cardinality(InvocationsOf(k)) <= 1
             /\ \A i \in InvocationsOf(k) : invoked[i].at = c.at + limit
             /\ InvocationsOf(k) = {} =>
                  /\ k = Len(hookCalls)
                  /\ inThrottle
                  /\ lastArgs = << c.args >>
                  /\ \E t \in hookTimers :
                       /\ t.id = timeoutId
                       /\ t.due = c.at + limit
                       /\ t.callback = "executeThrottled"

\* C37: two calls came during the throttle period the first call opened,
\* at different times, and func has been invoked with the arguments of the
\* first call and then with those of the third.
C37_Witness ==
  /\ Len(hookCalls) = 3
  /\ hookCalls[2].suppressed
  /\ hookCalls[3].suppressed
  /\ hookCalls[2].at < hookCalls[3].at
  /\ invoked = << [args |-> 1, at |-> hookCalls[1].at],
                  [args |-> 3, at |-> hookCalls[3].at + limit] >>
  /\ hookTimers = {}

\* C38: one call of the throttled function, followed by no other call,
\* results in exactly one invocation of func.
C38_SingleCallOnce == Len(hookCalls) = 1 => Len(invoked) = 1

\* C39: func is invoked only by the timer of the last call of the
\* debounced function made so far, wait after that call.  A call followed
\* by another less than wait later never has its arguments passed to func;
\* the last call of a burst has them passed exactly once, wait after it:
\* until then its timer is pending (a call made at the very time the timer
\* is due, before the host has run it, still replaces it).
C39_DebounceLast ==
  /\ \A i \in 1..Len(invoked) :
       \E k \in 1..Len(hookCalls) :
         /\ invoked[i].args = hookCalls[k].args
         /\ invoked[i].at = hookCalls[k].at + wait
         /\ \A j \in 1..Len(hookCalls) :
              j > k => hookCalls[j].at >= invoked[i].at
  /\ \A k \in 1..Len(hookCalls) :
       LET c == hookCalls[k]
           burstGoesOn ==
             k < Len(hookCalls) /\ hookCalls[k + 1].at - c.at < wait
       IN  /\ burstGoesOn => InvocationsOf(k) = {}
           /\ Cardinality(InvocationsOf(k)) <= 1
           /\ (~burstGoesOn /\ InvocationsOf(k) = {}) =>
                \/ \E t \in hookTimers :
                     /\ t.id = timeout
                     /\ t.due = c.at + wait
                     /\ t.args = << c.args >>
                \/ /\ k < Len(hookCalls)
                   /\ hookCalls[k + 1].at = c.at + wait

\* C39: a burst of three calls, each less than wait after the one before,
\* ended in one invocation of func, with the arguments of the third.
C39_Witness ==
  /\ Len(hookCalls) = 3
  /\ hookCalls[1].at < hookCalls[2].at
  /\ hookCalls[2].at < hookCalls[3].at
  /\ invoked = << [args |-> 3, at |-> hookCalls[3].at + wait] >>
  /\ hookTimers = {}

\* The timers of the start that are pending, by callback.
PendingOf(callback) == {t \in hookTimers : t.callback = callback}

\* What holds of the attempts made so far, for maxRetries = arg[1] and
\* delayMs = arg[2].
AttemptsInBounds ==
  /\ Len(attempts) <= 1 + Max(0, arg[1])
  /\ \A k \in 1..Len(attempts) :
       /\ k = 1 => attempts[k].at = 0
       /\ k > 1 => attempts[k].at = attempts[k - 1].at + arg[2] * (k - 1)
       /\ attempts[k].success => k = Len(attempts)
  /\ retryCount <= Max(0, arg[1])
  /\ Cardinality(PendingOf("retry")) <= 1
  /\ \A t \in PendingOf("retry") :
       /\ ~attempts[Len(attempts)].success
       /\ Len(attempts) = retryCount
       /\ t.due = attempts[Len(attempts)].at + arg[2] * retryCount

\* The renderer functions are installed and the initial draw is scheduled
\* once, by the attempt that succeeded, and not otherwise.
InstalledOnSuccess ==
  LET succeeded == \E k \in 1..Len(attempts) : attempts[k].success
  IN  /\ installs = IF succeeded THEN 1 ELSE 0
      /\ rendererFunctions = IF succeeded THEN "set" ELSE "null"
      /\ Cardinality(PendingOf("draw")) + drawn = installs
      /\ \A t \in PendingOf("draw") :
           t.due = attempts[Len(attempts)].at + INITIAL_DRAW_DELAY_MS

\* C40: initialiseRendererWithRetry(maxRetries, delayMs) makes one attempt
\* at once and at most maxRetries more, the k-th delayMs * k after the
\* attempt before it, and none after one that succeeded; it installs the
\* renderer functions and schedules the initial draw once, when an attempt
\* succeeds, and never otherwise; the attempt that succeeds leaves the
\* scheduler cleared, with the draw callback installed, and the uncertainty
\* cache empty; and once it is called, the time comes when none of its
\* timers is pending.
C40_RetryTerminates ==
  /\ [](AttemptsInBounds /\ InstalledOnSuccess)
  /\ [][ ( /\ Len(attempts') > Len(attempts)
           /\ attempts'[Len(attempts')].success )
         => /\ updateQueue' = <<>>
            /\ ~isProcessing'
            /\ timers' = {}
            /\ updateFunction' = "_drawHealthArcImpl"
            /\ uncertaintyMap' = {} ]_vars
  /\ (attempts # <<>>) ~> (hookTimers = {})

\* C40: the first attempt and the first retry failed, the second retry
\* succeeded, 200 and then 400 ms after the attempt before it, on a
\* scheduler with a queued update and a cache with a record; the initial
\* draw has run and no timer is left.
C40_Witness ==
  /\ arg = << RETRY_MAX_ATTEMPTS, RETRY_BASE_DELAY_MS >>
  /\ Len(attempts) = 3
  /\ attempts[3].success
  /\ attempts[3].at = 600
  /\ attempts[3].queued > 0
  /\ attempts[3].cached > 0
  /\ installs = 1
  /\ drawn = 1
  /\ hookTimers = {}

====
